---- MODULE Spec2Model ----
(***************************************************************************)
(* The Deliberate Reasoning Engine server (src/src/index.ts, class         *)
(* DREServer of server.ts, lines 344-889) with its token-bucket rate       *)
(* limiter (src/unnamed/part_001) and the asynchronous persistence step    *)
(* (src/unnamed/part_002, SQLitePersistence.saveThought).                  *)
(*                                                                         *)
(* Ids are strings in the code; here an id is a natural number.            *)
(* generateId() (Math.random + Date.now) is taken to return an id no       *)
(* stored thought has: the n-th inserted thought gets id n.                *)
(* Text is a sequence of tokens, so that the critique template             *)
(* concatenates and "contains" is a real substring test.                   *)
(* Token counts are kept in thousandths of a token (exact integers).       *)
(***************************************************************************)
EXTENDS Integers, Sequences, FiniteSets, TLC

VARIABLES
  graph,      \* this.graph: [thoughts (Map in insertion order), session_id, created_at]
  limiters,   \* this.rateLimiter.limiters: operation class -> token bucket
  now,        \* Date.now(), milliseconds
  pending,    \* tool calls suspended at an await of persistence.saveThought
  response    \* what the last step returned to its caller (NoResponse: handler suspended)

vars == <<graph, limiters, now, pending, response>>

----------------------------------------------------------------------------
(* Bounds of the model *)

\* tool calls that may be suspended at a persistence await at the same time
MaxPending == 1
\* the tokens left in the buckets in the initial state (the other buckets are
\* full): the server has by then admitted the rest of each bucket's capacity
InitialTokens ==
  [log_thought |-> 2, invalidate_assumption |-> 2, get_thought_graph |-> 1,
   query_thoughts |-> 1]

----------------------------------------------------------------------------
(* Program constants *)

ThoughtType ==
  {"objective", "hypothesis", "assumption", "question", "sub_problem",
   "evidence", "action", "synthesis", "critique"}

\* the limiters the constructor adds (rateLimiter.addLimiter)
Config ==
  [log_thought |-> [maxTokens |-> 50, refillRate |-> 5, windowMs |-> 60000],
   query_thoughts |-> [maxTokens |-> 20, refillRate |-> 2, windowMs |-> 60000],
   get_metrics |-> [maxTokens |-> 10, refillRate |-> 1, windowMs |-> 60000],
   invalidate_assumption |-> [maxTokens |-> 30, refillRate |-> 3, windowMs |-> 60000],
   get_thought_graph |-> [maxTokens |-> 15, refillRate |-> 2, windowMs |-> 60000]]

\* RateLimitManager.defaultConfig
defaultConfig == [maxTokens |-> 100, refillRate |-> 10, windowMs |-> 60000]

\* one token, in thousandths
Milli == 1000

DefaultClient == "default"

\* 'temp_' + Date.now(): the id of the virtual candidate node; no thought has it
tempId == 0 - 1

\* the empty string as an id (no thought has it)
EmptyId == 0

SessionId == "session"

----------------------------------------------------------------------------
(* Inputs the model draws *)

InputTypes == {"assumption", "hypothesis"}
\* a thought_type the enum of LogThoughtSchema does not have
BadType == "note"
Contents == {<<"p">>}
Reasons == {<<"r1">>, <<"r2">>}
\* an optional string field the caller left out
Missing == "undefined"
\* an optional number is <<>> when absent and <<n>> when present; a confidence
\* is kept in tenths
undefined == <<>>

----------------------------------------------------------------------------
(* Text *)

\* String.prototype.includes on token sequences
Includes(hay, needle) ==
  \E i \in 0..(Len(hay) - Len(needle)) :
     \A j \in 1..Len(needle) : hay[i + j] = needle[j]

\* the critique template without the reason
CritiqueTextNoReason(thoughtText, reason) ==
  <<"Assumption invalidated: \"">> \o thoughtText \o <<"\".">>

\* `Assumption invalidated: "${thought.thought}". Reason: ${input.reason}`
CritiqueText(thoughtText, reason) ==
  <<"Assumption invalidated: \"">> \o thoughtText \o <<"\". Reason: ">> \o reason

----------------------------------------------------------------------------
(* The graph: Map<string, Thought> as the sequence of its values in        *)
(* insertion order                                                         *)

SeqIncludes(s, x) == \E i \in 1..Len(s) : s[i] = x

Ids(ts) == {ts[i].id : i \in 1..Len(ts)}

\* Map.has
Has(ts, id) == id \in Ids(ts)

\* Map.get (of an id the map has)
Get(ts, id) == ts[CHOOSE i \in 1..Len(ts) : ts[i].id = id]

\* generateId() that starts over at the first id once two thoughts are stored
generateIdReused(ts) == IF Len(ts) < 2 THEN Len(ts) + 1 ELSE 1

\* generateId(): an id no stored thought has
generateId(ts) == Len(ts) + 1

\* Map.set under a fresh key appends; under an existing key it replaces in place
MapSet(ts, t) ==
  IF Has(ts, t.id)
  THEN [i \in 1..Len(ts) |-> IF ts[i].id = t.id THEN t ELSE ts[i]]
  ELSE Append(ts, t)

\* a status change that also drops the dependencies of the thought
WithStatusDetached(ts, id, st) ==
  [i \in 1..Len(ts) |->
     IF ts[i].id = id THEN [ts[i] EXCEPT !.status = st, !.dependencies = <<>>] ELSE ts[i]]

WithStatus(ts, id, st) ==
  [i \in 1..Len(ts) |-> IF ts[i].id = id THEN [ts[i] EXCEPT !.status = st] ELSE ts[i]]

----------------------------------------------------------------------------
(* DREServer.validateDependencies *)

RECURSIVE hasCycle(_, _, _, _), hasCycleLoop(_, _, _, _, _, _)

\* the closure hasCycle(nodeId); st = [visited, recursiveStack]; the result
\* carries the two sets as the call leaves them
hasCycle(ts, dependencies, nodeId, st) ==
  IF nodeId \in st.recursiveStack
  THEN [cycle |-> TRUE, visited |-> st.visited, recursiveStack |-> st.recursiveStack]
  ELSE IF nodeId \in st.visited
  THEN [cycle |-> FALSE, visited |-> st.visited, recursiveStack |-> st.recursiveStack]
  ELSE LET entered == [visited |-> st.visited \cup {nodeId},
                       recursiveStack |-> st.recursiveStack \cup {nodeId}]
           deps == IF nodeId = tempId THEN dependencies
                   ELSE IF Has(ts, nodeId) THEN Get(ts, nodeId).dependencies
                   ELSE <<>>
       IN hasCycleLoop(ts, dependencies, nodeId, deps, 1, entered)

\* the loop of hasCycle without recursiveStack.delete(nodeId): a node stays
\* on the stack once it is explored
RECURSIVE hasCycleLoopKeepsStack(_, _, _, _, _, _)
hasCycleLoopKeepsStack(ts, dependencies, nodeId, deps, i, st) ==
  IF i > Len(deps)
  THEN [cycle |-> FALSE, visited |-> st.visited, recursiveStack |-> st.recursiveStack]
  ELSE LET r == hasCycle(ts, dependencies, deps[i], st)
       IN IF r.cycle THEN r
          ELSE hasCycleLoopKeepsStack(ts, dependencies, nodeId, deps, i + 1,
                                      [visited |-> r.visited,
                                       recursiveStack |-> r.recursiveStack])

\* for (const depId of deps) { if (hasCycle(depId)) return true; }
\* recursiveStack.delete(nodeId); return false;
hasCycleLoop(ts, dependencies, nodeId, deps, i, st) ==
  IF i > Len(deps)
  THEN [cycle |-> FALSE, visited |-> st.visited,
        recursiveStack |-> st.recursiveStack \ {nodeId}]
  ELSE LET r == hasCycle(ts, dependencies, deps[i], st)
       IN IF r.cycle THEN r
          ELSE hasCycleLoop(ts, dependencies, nodeId, deps, i + 1,
                            [visited |-> r.visited, recursiveStack |-> r.recursiveStack])

\* the dependency ids the graph does not have, in the order of the list
MissingDeps(ts, dependencies) ==
  SelectSeq(dependencies, LAMBDA d : ~Has(ts, d))

\* validateDependencies without the loop that checks the ids exist
validateDependenciesNoExistence(ts, dependencies) ==
  IF hasCycle(ts, dependencies, tempId, [visited |-> {}, recursiveStack |-> {}]).cycle
  THEN [error |-> "Circular dependency detected", dep |-> tempId]
  ELSE [error |-> "ok", dep |-> tempId]

\* validateDependencies that looks only at the first dependency id
validateDependenciesFirstOnly(ts, dependencies) ==
  IF dependencies # <<>> /\ ~Has(ts, Head(dependencies))
  THEN [error |-> "Dependency does not exist", dep |-> Head(dependencies)]
  ELSE IF hasCycle(ts, dependencies, tempId,
                   [visited |-> {}, recursiveStack |-> {}]).cycle
  THEN [error |-> "Circular dependency detected", dep |-> tempId]
  ELSE [error |-> "ok", dep |-> tempId]

\* "ok", or the error validateDependencies throws
validateDependencies(ts, dependencies) ==
  IF MissingDeps(ts, dependencies) # <<>>
  THEN [error |-> "Dependency does not exist", dep |-> Head(MissingDeps(ts, dependencies))]
  ELSE IF hasCycle(ts, dependencies, tempId,
                   [visited |-> {}, recursiveStack |-> {}]).cycle
  THEN [error |-> "Circular dependency detected", dep |-> tempId]
  ELSE [error |-> "ok", dep |-> tempId]

----------------------------------------------------------------------------
(* DREServer.markStale *)

RECURSIVE markStale(_, _), markStaleLoop(_, _, _, _)

\* markStale that marks the thought and does not look for its dependents
markStaleOnlyItself(ts, thoughtId) ==
  IF Has(ts, thoughtId) /\ Get(ts, thoughtId).status = "active"
  THEN [thoughts |-> WithStatus(ts, thoughtId, "stale"), stale |-> <<thoughtId>>]
  ELSE [thoughts |-> ts, stale |-> <<>>]

\* markStale without the tests of the status below the first thought: it
\* reports a dependent once for every path that leads to it
RECURSIVE markStaleEveryPathLoop(_, _, _, _)
markStaleEveryPathLoop(ts, thoughtId, i, stale) ==
  IF i > Len(ts)
  THEN [thoughts |-> ts, stale |-> stale]
  ELSE IF SeqIncludes(ts[i].dependencies, thoughtId)
  THEN LET r == markStaleEveryPathLoop(WithStatus(ts, ts[i].id, "stale"), ts[i].id, 1,
                                       <<ts[i].id>>)
       IN markStaleEveryPathLoop(r.thoughts, thoughtId, i + 1, stale \o r.stale)
  ELSE markStaleEveryPathLoop(ts, thoughtId, i + 1, stale)

markStaleEveryPath(ts, thoughtId) ==
  IF Has(ts, thoughtId) /\ Get(ts, thoughtId).status = "active"
  THEN markStaleEveryPathLoop(WithStatus(ts, thoughtId, "stale"), thoughtId, 1, <<thoughtId>>)
  ELSE [thoughts |-> ts, stale |-> <<>>]

\* returns the thoughts as the call leaves them and the list it returns
markStale(ts, thoughtId) ==
  IF Has(ts, thoughtId) /\ Get(ts, thoughtId).status = "active"
  THEN markStaleLoop(WithStatus(ts, thoughtId, "stale"), thoughtId, 1, <<thoughtId>>)
  ELSE [thoughts |-> ts, stale |-> <<>>]

\* the loop of markStale without the test of the dependent's status: it marks
\* and walks through dependents that are already stale
RECURSIVE markStaleLoopThroughStale(_, _, _, _)
markStaleLoopThroughStale(ts, thoughtId, i, stale) ==
  IF i > Len(ts)
  THEN [thoughts |-> ts, stale |-> stale]
  ELSE IF SeqIncludes(ts[i].dependencies, thoughtId)
  THEN LET r == markStaleLoopThroughStale(WithStatus(ts, ts[i].id, "stale"), ts[i].id, 1,
                                          IF ts[i].status = "active" THEN <<ts[i].id>> ELSE <<>>)
       IN markStaleLoopThroughStale(r.thoughts, thoughtId, i + 1, stale \o r.stale)
  ELSE markStaleLoopThroughStale(ts, thoughtId, i + 1, stale)

\* the loop of markStale with critiques exempt from the cascade
RECURSIVE markStaleLoopSparesCritiques(_, _, _, _)
markStaleLoopSparesCritiques(ts, thoughtId, i, stale) ==
  IF i > Len(ts)
  THEN [thoughts |-> ts, stale |-> stale]
  ELSE IF /\ SeqIncludes(ts[i].dependencies, thoughtId)
          /\ ts[i].status = "active"
          /\ ts[i].thought_type # "critique"
  THEN LET r == markStale(ts, ts[i].id)
       IN markStaleLoopSparesCritiques(r.thoughts, thoughtId, i + 1, stale \o r.stale)
  ELSE markStaleLoopSparesCritiques(ts, thoughtId, i + 1, stale)

\* for (const [id, t] of this.graph.thoughts.entries()): the condition reads
\* the statuses as the earlier iterations left them
markStaleLoop(ts, thoughtId, i, stale) ==
  IF i > Len(ts)
  THEN [thoughts |-> ts, stale |-> stale]
  ELSE IF SeqIncludes(ts[i].dependencies, thoughtId) /\ ts[i].status = "active"
  THEN LET r == markStale(ts, ts[i].id)
       IN markStaleLoop(r.thoughts, thoughtId, i + 1, stale \o r.stale)
  ELSE markStaleLoop(ts, thoughtId, i + 1, stale)

----------------------------------------------------------------------------
(* TokenBucketRateLimiter and RateLimitManager *)

Min(a, b) == IF a < b THEN a ELSE b

\* Math.ceil(a / b) for a >= 0, b > 0
CeilDiv(a, b) == (a + b - 1) \div b

\* new TokenBucketRateLimiter(config), constructed at time t
NewLimiter(config, t) ==
  [tokens |-> config.maxTokens * Milli,
   lastRefill |-> t,
   maxTokens |-> config.maxTokens,
   refillRate |-> config.refillRate,
   windowMs |-> config.windowMs,
   requestCount |-> <<>>]

\* refillTokens() without the cap at maxTokens
refillTokensUncapped(l, t) ==
  [l EXCEPT !.tokens = l.tokens + (t - l.lastRefill) * l.refillRate,
            !.lastRefill = t]

\* refillTokens(): (now - lastRefill) / 1000 * refillRate tokens, capped
refillTokens(l, t) ==
  [l EXCEPT !.tokens = Min(l.maxTokens * Milli, l.tokens + (t - l.lastRefill) * l.refillRate),
            !.lastRefill = t]

\* requestCount is a Map from `${clientId}:${window}` to a count, kept here as a
\* sequence of [client, window, count] entries in insertion order
CountOf(rc, client, window) ==
  IF \E i \in 1..Len(rc) : rc[i].client = client /\ rc[i].window = window
  THEN rc[CHOOSE i \in 1..Len(rc) : rc[i].client = client /\ rc[i].window = window].count
  ELSE 0

SetCount(rc, client, window, n) ==
  IF \E i \in 1..Len(rc) : rc[i].client = client /\ rc[i].window = window
  THEN [i \in 1..Len(rc) |->
          IF rc[i].client = client /\ rc[i].window = window
          THEN [rc[i] EXCEPT !.count = n] ELSE rc[i]]
  ELSE Append(rc, [client |-> client, window |-> window, count |-> n])

\* the window indices a key is written with, and the decimal numeral
\* `${Math.floor(now / this.windowMs)}` of each
Numerals == 0..9
NumeralOf == [n \in Numerals |-> ToString(n)]

\* a caller id that has colons in it, and the pieces split(':') cuts it into
HostPort == "host:0"
SplitTable == [id \in {HostPort} |-> <<"host", "0">>]

\* str.split(':') of a caller id
split(str) == IF str \in DOMAIN SplitTable THEN SplitTable[str] ELSE <<str>>

\* the number each numeral is read as
NumberOf ==
  [str \in {NumeralOf[n] : n \in Numerals} |-> CHOOSE n \in Numerals : NumeralOf[n] = str]

\* parseInt(str) of a piece of a key: the number of a numeral, NaN (none)
\* of any other piece and of the piece that is missing
parseInt(piece) ==
  IF piece # undefined /\ piece[1] \in DOMAIN NumberOf
  THEN <<NumberOf[piece[1]]>>
  ELSE undefined

\* key.split(':') of the key `${clientId}:${window}` of an entry
KeySplit(e) == split(e.client) \o <<NumeralOf[e.window]>>

\* const [, timestamp] = key.split(':')
Timestamp(e) ==
  LET pieces == KeySplit(e)
  IN IF Len(pieces) >= 2 THEN <<pieces[2]>> ELSE undefined

\* the clean-up loop of checkLimit: a comparison with NaN is false
CleanOld(rc, windowMs, t) ==
  SelectSeq(rc, LAMBDA e :
     LET timestamp == parseInt(Timestamp(e))
     IN ~(timestamp # undefined /\ timestamp[1] < (t - windowMs) \div windowMs))

\* checkLimit that takes the cost off the bucket before it tests the bucket
checkLimitDeductsFirst(l, clientId, cost, t) ==
  LET r == refillTokens(l, t)
      taken == [r EXCEPT !.tokens = r.tokens - cost * Milli,
                         !.requestCount = CleanOld(r.requestCount, r.windowMs, t)]
  IN IF taken.tokens >= 0
     THEN [limiter |-> [taken EXCEPT !.requestCount =
                          SetCount(taken.requestCount, clientId, t \div r.windowMs,
                                   CountOf(taken.requestCount, clientId, t \div r.windowMs) + 1)],
           result |-> [allowed |-> TRUE, retryAfter |-> 0,
                       remaining |-> taken.tokens \div Milli]]
     ELSE [limiter |-> taken,
           result |-> [allowed |-> FALSE,
                       retryAfter |-> CeilDiv(0 - taken.tokens, taken.refillRate),
                       remaining |-> taken.tokens \div Milli]]

\* checkLimit that also denies a caller whose count in the window has
\* reached the capacity of the bucket
checkLimitWindowCapped(l, clientId, cost, t) ==
  LET r == refillTokens(l, t)
      window == t \div r.windowMs
      cleaned == [r EXCEPT !.requestCount = CleanOld(r.requestCount, r.windowMs, t)]
  IN IF /\ cleaned.tokens >= cost * Milli
        /\ CountOf(cleaned.requestCount, clientId, window) < cleaned.maxTokens
     THEN LET spent == [cleaned EXCEPT
                          !.tokens = cleaned.tokens - cost * Milli,
                          !.requestCount =
                             SetCount(cleaned.requestCount, clientId, window,
                                      CountOf(cleaned.requestCount, clientId, window) + 1)]
          IN [limiter |-> spent,
              result |-> [allowed |-> TRUE, retryAfter |-> 0,
                          remaining |-> spent.tokens \div Milli]]
     ELSE [limiter |-> cleaned,
           result |-> [allowed |-> FALSE,
                       retryAfter |-> CeilDiv(cost * Milli - cleaned.tokens, cleaned.refillRate),
                       remaining |-> cleaned.tokens \div Milli]]

\* TokenBucketRateLimiter.checkLimit(clientId, cost) at time t:
\* the limiter as the call leaves it, and the result
checkLimit(l, clientId, cost, t) ==
  LET r == refillTokens(l, t)
      window == t \div r.windowMs
      cleaned == [r EXCEPT !.requestCount = CleanOld(r.requestCount, r.windowMs, t)]
  IN IF cleaned.tokens >= cost * Milli
     THEN LET spent == [cleaned EXCEPT
                          !.tokens = cleaned.tokens - cost * Milli,
                          !.requestCount =
                             SetCount(cleaned.requestCount, clientId, window,
                                      CountOf(cleaned.requestCount, clientId, window) + 1)]
          IN [limiter |-> spent,
              result |-> [allowed |-> TRUE, retryAfter |-> 0,
                          remaining |-> spent.tokens \div Milli]]
     ELSE [limiter |-> cleaned,
           result |-> [allowed |-> FALSE,
                       retryAfter |-> CeilDiv(cost * Milli - cleaned.tokens, cleaned.refillRate),
                       remaining |-> cleaned.tokens \div Milli]]

\* a manager whose checkLimit refills every bucket it has
ManagerCheckLimitRefillsAll(ls, limiterName, clientId, cost, t) ==
  LET l == IF limiterName \in DOMAIN ls THEN ls[limiterName]
           ELSE NewLimiter(defaultConfig, t)
      c == checkLimit(l, clientId, cost, t)
  IN [limiters |-> [n \in DOMAIN ls \cup {limiterName} |->
                      IF n = limiterName THEN c.limiter ELSE refillTokens(ls[n], t)],
      result |-> c.result]

\* RateLimitManager.checkLimit(limiterName, clientId, cost): the manager's
\* Map as the call leaves it, and the result
ManagerCheckLimit(ls, limiterName, clientId, cost, t) ==
  LET l == IF limiterName \in DOMAIN ls THEN ls[limiterName]
           ELSE NewLimiter(defaultConfig, t)
      c == checkLimit(l, clientId, cost, t)
  IN [limiters |-> [n \in DOMAIN ls \cup {limiterName} |->
                      IF n = limiterName THEN c.limiter ELSE ls[n]],
      result |-> c.result]

----------------------------------------------------------------------------
(* Responses of the CallTool handler *)

NoResponse == [kind |-> "none", code |-> "", message |-> "", detail |-> <<>>]

\* a successful tool result; body is the object the handler serialises
Result(body) == [kind |-> "result", code |-> "", message |-> "", detail |-> body]

\* new McpError(code, message); detail holds the values the message embeds
McpError(code, message, detail) ==
  [kind |-> "error", code |-> code, message |-> message, detail |-> detail]

\* checkRateLimit's error for a denied call
RateLimitError(toolName, result) ==
  McpError("InvalidRequest", "Rate limit exceeded",
           <<toolName, result.retryAfter, result.remaining>>)

\* the catch clause for a ZodError
InvalidParameters == McpError("InvalidParams", "Invalid parameters", <<>>)

\* the catch clause for any other error (a rejected saveThought)
InternalError == McpError("InternalError", "persistence failed", <<>>)

----------------------------------------------------------------------------
(* Schemas (zod) *)

\* LogThoughtSchema.parse succeeds
LogThoughtSchemaOk(args) ==
  /\ args.thought_type \in ThoughtType
  /\ \A i \in 1..Len(args.confidence) : args.confidence[i] >= 0 /\ args.confidence[i] <= 10

\* InvalidateSchema.parse succeeds
InvalidateSchemaOk(args) == args.omitted = {}

\* GetGraphSchema.parse succeeds; the format it yields (default 'summary')
GetGraphSchemaOk(args) == args.format \in {"full", "summary", Missing}
GetGraphFormat(args) == IF args.format = Missing THEN "summary" ELSE args.format

----------------------------------------------------------------------------
(* Initial state *)

\* a limiter that has admitted all but `left` of its tokens' worth of calls
\* since construction, all within the clock reading t
SpentLimiter(config, left, t) ==
  [NewLimiter(config, t) EXCEPT
     !.tokens = left * Milli,
     !.requestCount = IF config.maxTokens > left
                      THEN <<[client |-> DefaultClient, window |-> t \div config.windowMs,
                              count |-> config.maxTokens - left]>>
                      ELSE <<>>]

Budget(name) ==
  IF name \in DOMAIN InitialTokens THEN InitialTokens[name] ELSE Config[name].maxTokens

Init ==
  /\ now = 0
  /\ graph = [thoughts |-> <<>>, session_id |-> SessionId, created_at |-> 0]
  /\ limiters = [n \in DOMAIN Config |-> SpentLimiter(Config[n], Budget(n), 0)]
  /\ pending = {}
  /\ response = NoResponse

----------------------------------------------------------------------------
(* log_thought *)

\* checkRateLimit(name) does not throw: the bucket admits the call
Admitted(name) == ManagerCheckLimit(limiters, name, DefaultClient, 1, now).result.allowed

\* the dependency lists an input carries: none, one id, or two ids in
\* ascending order
DepLists(S) ==
  {<<>>} \cup {<<a>> : a \in S} \cup {<<x[1], x[2]>> : x \in {y \in S \X S : y[1] < y[2]}}

\* the arguments of a log_thought call: every well-formed input over the ids
\* of the graph and one id it does not have, and one input the schema rejects.
\* A call the bucket denies is thrown out before its arguments are parsed:
\* there the inputs without dependencies and with the unknown id stand for all
LogThoughtInputs ==
  [thought : Contents,
   thought_type : InputTypes,
   dependencies : IF Admitted("log_thought")
                  THEN DepLists(1..(Len(graph.thoughts) + 1))
                  ELSE {<<>>, <<Len(graph.thoughts) + 1>>},
   confidence : {undefined}]
  \cup
  [thought : Contents, thought_type : {BadType}, dependencies : {<<>>},
   confidence : {undefined}]

\* the Thought handleLogThought builds
NewThought(ts, input, t) ==
  [id |-> generateId(ts),
   thought |-> input.thought,
   thought_type |-> input.thought_type,
   dependencies |-> input.dependencies,
   confidence |-> input.confidence,
   timestamp |-> t,
   status |-> "active"]

\* CallTool 'log_thought' up to the await in handleLogThought
CallLogThought(args) ==
  LET chk == ManagerCheckLimit(limiters, "log_thought", DefaultClient, 1, now)
      v == validateDependencies(graph.thoughts, args.dependencies)
      thought == NewThought(graph.thoughts, args, now)
  IN /\ limiters' = chk.limiters
     /\ now' = now
     /\ IF ~chk.result.allowed
        THEN /\ response' = RateLimitError("log_thought", chk.result)
             /\ UNCHANGED <<graph, pending>>
        ELSE IF ~LogThoughtSchemaOk(args)
        THEN /\ response' = InvalidParameters
             /\ UNCHANGED <<graph, pending>>
        ELSE IF v.error # "ok"
        THEN /\ response' = McpError("InvalidParams", v.error, <<v.dep>>)
             /\ UNCHANGED <<graph, pending>>
        ELSE /\ graph' = [graph EXCEPT !.thoughts = MapSet(graph.thoughts, thought)]
             /\ pending' = pending \cup
                  {[name |-> "log_thought", arguments |-> args, id |-> thought.id,
                    invalidated |-> <<>>, saves |-> <<thought.id>>]}
             /\ response' = NoResponse

\* a log_thought call of a client that has fewer than MaxPending calls
\* outstanding
LogThought(args) == Cardinality(pending) < MaxPending /\ CallLogThought(args)

----------------------------------------------------------------------------
(* invalidate_assumption *)

\* the arguments of an invalidate_assumption call: every id of the graph and
\* one it does not have, and one call that leaves the reason out; the unknown
\* id stands for all in a call the bucket denies
InvalidateInputs ==
  [thought_id : IF Admitted("invalidate_assumption")
                THEN 1..(Len(graph.thoughts) + 1)
                ELSE {Len(graph.thoughts) + 1},
   reason : Reasons,
   omitted : {{}}]
  \cup
  [thought_id : {1}, reason : {<<>>}, omitted : {{"reason"}}]

\* the critique handleInvalidateAssumption builds
NewCritique(ts, thought, input, t) ==
  [id |-> generateId(ts),
   thought |-> CritiqueText(thought.thought, input.reason),
   thought_type |-> "critique",
   dependencies |-> <<input.thought_id>>,
   confidence |-> undefined,
   timestamp |-> t,
   status |-> "active"]

\* the checks of handleInvalidateAssumption without the one of the type
invalidatePreconditionNoType(ts, thought_id) ==
  IF ~Has(ts, thought_id) THEN "Thought not found" ELSE "ok"

\* the two checks handleInvalidateAssumption opens with: "ok", or the message
\* of the error it throws
invalidatePrecondition(ts, thought_id) ==
  IF ~Has(ts, thought_id) THEN "Thought not found"
  ELSE IF Get(ts, thought_id).thought_type # "assumption" THEN "Thought is not an assumption"
  ELSE "ok"

\* CallTool 'invalidate_assumption' up to the first await in
\* handleInvalidateAssumption
CallInvalidateAssumption(args) ==
  LET chk == ManagerCheckLimit(limiters, "invalidate_assumption", DefaultClient, 1, now)
      pre == invalidatePrecondition(graph.thoughts, args.thought_id)
      thought == Get(graph.thoughts, args.thought_id)
      marked == markStale(graph.thoughts, args.thought_id)
      critique == NewCritique(marked.thoughts, thought, args, now)
  IN /\ limiters' = chk.limiters
     /\ now' = now
     /\ IF ~chk.result.allowed
        THEN /\ response' = RateLimitError("invalidate_assumption", chk.result)
             /\ UNCHANGED <<graph, pending>>
        ELSE IF ~InvalidateSchemaOk(args)
        THEN /\ response' = InvalidParameters
             /\ UNCHANGED <<graph, pending>>
        ELSE IF pre # "ok"
        THEN /\ response' = McpError("InvalidParams", pre, <<>>)
             /\ UNCHANGED <<graph, pending>>
        ELSE /\ graph' = [graph EXCEPT !.thoughts = MapSet(marked.thoughts, critique)]
             /\ pending' = pending \cup
                  {[name |-> "invalidate_assumption", arguments |-> args,
                    id |-> critique.id, invalidated |-> marked.stale,
                    saves |-> <<critique.id>> \o marked.stale]}
             /\ response' = NoResponse

\* an invalidate_assumption call of a client that has fewer than MaxPending
\* calls outstanding
InvalidateAssumption(args) ==
  Cardinality(pending) < MaxPending /\ CallInvalidateAssumption(args)

----------------------------------------------------------------------------
(* persistence.saveThought settles *)

\* what the handler returns once its last saveThought has resolved
Completed(call, ts) ==
  IF call.name = "log_thought"
  THEN Result([thought_id |-> call.id, status |-> "logged", total_thoughts |-> Len(ts)])
  ELSE Result([invalidated_thoughts |-> call.invalidated, critique_id |-> call.id])

\* a handler that puts its thought into the graph once more, as it built it,
\* when the save has resolved
SaveResolvesSetsAgain(call) ==
  /\ call \in pending
  /\ IF Len(call.saves) > 1
     THEN /\ pending' = (pending \ {call}) \cup {[call EXCEPT !.saves = Tail(call.saves)]}
          /\ response' = NoResponse
     ELSE /\ pending' = pending \ {call}
          /\ response' = Completed(call, graph.thoughts)
  /\ graph' = [graph EXCEPT !.thoughts = WithStatus(@, call.id, "active")]
  /\ UNCHANGED <<limiters, now>>

\* the saveThought a suspended handler awaits resolves: the handler goes on to
\* its next await, or returns
SaveResolves(call) ==
  /\ call \in pending
  /\ IF Len(call.saves) > 1
     THEN /\ pending' = (pending \ {call}) \cup {[call EXCEPT !.saves = Tail(call.saves)]}
          /\ response' = NoResponse
     ELSE /\ pending' = pending \ {call}
          /\ response' = Completed(call, graph.thoughts)
  /\ UNCHANGED <<graph, limiters, now>>

\* a rejected saveThought that takes the thought the call inserted out of
\* the graph again
SaveRejectsRollsBack(call) ==
  /\ call \in pending
  /\ pending' = pending \ {call}
  /\ response' = InternalError
  /\ graph' = [graph EXCEPT !.thoughts = SelectSeq(graph.thoughts, LAMBDA t : t.id # call.id)]
  /\ UNCHANGED <<limiters, now>>

\* the saveThought a suspended handler awaits rejects: the handler throws and
\* the catch clause of the CallTool handler turns it into an InternalError
SaveRejects(call) ==
  /\ call \in pending
  /\ pending' = pending \ {call}
  /\ response' = InternalError
  /\ UNCHANGED <<graph, limiters, now>>

----------------------------------------------------------------------------
(* get_thought_graph *)

GetGraphInputs == [format : {"full", "summary", Missing, "xml"}]

\* typeCounts of handleGetThoughtGraph
TypeCounts(ts) ==
  [ty \in {ts[i].thought_type : i \in 1..Len(ts)} |->
     Cardinality({i \in 1..Len(ts) : ts[i].thought_type = ty})]

\* a count of the stale assumptions only
StaleCountAssumptions(ts) ==
  Cardinality({i \in 1..Len(ts) :
                 ts[i].status = "stale" /\ ts[i].thought_type = "assumption"})

StaleCount(ts) == Cardinality({i \in 1..Len(ts) : ts[i].status = "stale"})

handleGetThoughtGraph(g, format) ==
  IF format = "full"
  THEN Result([session_id |-> g.session_id, created_at |-> g.created_at,
               thoughts |-> g.thoughts, total_thoughts |-> Len(g.thoughts)])
  ELSE Result([session_id |-> g.session_id, total_thoughts |-> Len(g.thoughts),
               thought_types |-> TypeCounts(g.thoughts),
               stale_thoughts |-> StaleCount(g.thoughts)])

\* CallTool 'get_thought_graph' with the schema parsed before the bucket is
\* asked
GetThoughtGraphParsesFirst(args) ==
  LET chk == ManagerCheckLimit(limiters, "get_thought_graph", DefaultClient, 1, now)
  IN /\ limiters' = IF GetGraphSchemaOk(args) THEN chk.limiters ELSE limiters
     /\ response' =
          IF ~GetGraphSchemaOk(args) THEN InvalidParameters
          ELSE IF ~chk.result.allowed THEN RateLimitError("get_thought_graph", chk.result)
          ELSE handleGetThoughtGraph(graph, GetGraphFormat(args))
     /\ UNCHANGED <<graph, pending, now>>

\* CallTool 'get_thought_graph'
GetThoughtGraph(args) ==
  LET chk == ManagerCheckLimit(limiters, "get_thought_graph", DefaultClient, 1, now)
  IN /\ limiters' = chk.limiters
     /\ response' =
          IF ~chk.result.allowed THEN RateLimitError("get_thought_graph", chk.result)
          ELSE IF ~GetGraphSchemaOk(args) THEN InvalidParameters
          ELSE handleGetThoughtGraph(graph, GetGraphFormat(args))
     /\ UNCHANGED <<graph, pending, now>>

----------------------------------------------------------------------------
(* query_thoughts *)

QueryType == {"by_type", "by_dependency", "by_content", "by_confidence", "recent"}

\* an optional id or number of a query is <<>> when absent and <<v>> when
\* present; an absent content_search is the empty text (both are falsy)
QueryDefaults ==
  [query_type |-> Missing, thought_type |-> Missing, status |-> Missing,
   content_search |-> <<>>, min_confidence |-> undefined, max_confidence |-> undefined,
   dependency_of |-> undefined, depends_on |-> undefined,
   limit |-> undefined, offset |-> undefined]

\* the arguments of a query_thoughts call: no filter, the stale thoughts, the
\* dependents of the first thought one per page, and a limit the schema rejects
QueryInputs ==
  {QueryDefaults,
   [QueryDefaults EXCEPT !.status = "stale"],
   [QueryDefaults EXCEPT !.depends_on = <<1>>, !.query_type = "by_type",
                         !.limit = <<1>>, !.offset = <<1>>],
   [QueryDefaults EXCEPT !.limit = <<0>>]}

\* QueryThoughtsSchema.parse succeeds
QueryThoughtsSchemaOk(args) ==
  /\ args.query_type \in QueryType \cup {Missing}
  /\ args.thought_type \in ThoughtType \cup {Missing}
  /\ args.status \in {"active", "stale", Missing}
  /\ \A i \in 1..Len(args.min_confidence) :
        args.min_confidence[i] >= 0 /\ args.min_confidence[i] <= 10
  /\ \A i \in 1..Len(args.max_confidence) :
        args.max_confidence[i] >= 0 /\ args.max_confidence[i] <= 10
  /\ \A i \in 1..Len(args.limit) : args.limit[i] >= 1 /\ args.limit[i] <= 100
  /\ \A i \in 1..Len(args.offset) : args.offset[i] >= 0

\* the input QueryThoughtsSchema.parse yields: the defaults filled in
QueryThoughtsParsed(args) ==
  [args EXCEPT !.query_type = IF @ = Missing THEN "recent" ELSE @,
               !.limit = IF @ = undefined THEN 20 ELSE @[1],
               !.offset = IF @ = undefined THEN 0 ELSE @[1]]

\* String.prototype.toLowerCase, token by token
toLowerCase(text) ==
  [i \in 1..Len(text) |->
     IF text[i] = "Assumption invalidated: \"" THEN "assumption invalidated: \""
     ELSE IF text[i] = "\". Reason: " THEN "\". reason: "
     ELSE IF text[i] \in {"Beta", "BETA"} THEN "beta"
     ELSE text[i]]

\* the strings of the model in the order localeCompare puts them
Collation ==
  <<"\". Reason: ", "action", "alpha", "assumption", "Assumption invalidated: \"",
    "Beta", "critique", "evidence", "gamma", "hypothesis", "objective", "p",
    "question", "r1", "r2", "sub_problem", "synthesis">>

Rank(str) == CHOOSE i \in 1..Len(Collation) : Collation[i] = str

\* a.localeCompare(b) on texts: negative, zero or positive
RECURSIVE localeCompare(_, _)
localeCompare(a, b) ==
  IF a = <<>> /\ b = <<>> THEN 0
  ELSE IF a = <<>> THEN 0 - 1
  ELSE IF b = <<>> THEN 1
  ELSE IF Head(a) # Head(b) THEN Rank(Head(a)) - Rank(Head(b))
  ELSE localeCompare(Tail(a), Tail(b))

\* t.confidence || 0
ConfidenceOr0(t) == IF t.confidence = undefined THEN 0 ELSE t.confidence[1]

\* a comparator that puts the least confident first
CompareLeastConfidentFirst(query_type, a, b) ==
  CASE query_type = "recent" -> b.timestamp - a.timestamp
    [] query_type = "by_confidence" -> ConfidenceOr0(a) - ConfidenceOr0(b)
    [] query_type = "by_type" -> Rank(a.thought_type) - Rank(b.thought_type)
    [] query_type = "by_content" -> localeCompare(a.thought, b.thought)
    [] query_type = "by_dependency" -> Len(b.dependencies) - Len(a.dependencies)

\* the comparator the switch on query_type passes to sort
Compare(query_type, a, b) ==
  CASE query_type = "recent" -> b.timestamp - a.timestamp
    [] query_type = "by_confidence" -> ConfidenceOr0(b) - ConfidenceOr0(a)
    [] query_type = "by_type" -> Rank(a.thought_type) - Rank(b.thought_type)
    [] query_type = "by_content" -> localeCompare(a.thought, b.thought)
    [] query_type = "by_dependency" -> Len(b.dependencies) - Len(a.dependencies)

\* Array.prototype.sort (stable): x goes behind the elements that do not
\* compare greater than it
RECURSIVE Insert(_, _, _), Sort(_, _)
Insert(sorted, x, query_type) ==
  IF sorted = <<>> THEN <<x>>
  ELSE IF Compare(query_type, Head(sorted), x) <= 0
  THEN <<Head(sorted)>> \o Insert(Tail(sorted), x, query_type)
  ELSE <<x>> \o sorted

Sort(ts, query_type) ==
  IF ts = <<>> THEN <<>>
  ELSE Insert(Sort(SubSeq(ts, 1, Len(ts) - 1), query_type), ts[Len(ts)], query_type)

\* if (input.dependency_of), if (input.depends_on): the id is given and is
\* not the empty string
Truthy(optionalId) == optionalId # undefined /\ optionalId[1] # EmptyId

\* the filters of handleQueryThoughts, in conjunction
Matches(ts, input, t) ==
  /\ input.thought_type # Missing => t.thought_type = input.thought_type
  /\ input.status # Missing => t.status = input.status
  /\ input.content_search # <<>> =>
        Includes(toLowerCase(t.thought), toLowerCase(input.content_search))
  /\ input.min_confidence # undefined =>
        t.confidence # undefined /\ t.confidence[1] >= input.min_confidence[1]
  /\ input.max_confidence # undefined =>
        t.confidence # undefined /\ t.confidence[1] <= input.max_confidence[1]
  /\ Truthy(input.dependency_of) =>
        /\ Has(ts, input.dependency_of[1])
        /\ SeqIncludes(Get(ts, input.dependency_of[1]).dependencies, t.id)
  /\ Truthy(input.depends_on) => SeqIncludes(t.dependencies, input.depends_on[1])

\* a slice that takes its second argument for a count (as splice does)
SliceByCount(s, from, to) == SubSeq(s, from + 1, Min(from + to, Len(s)))

\* Array.prototype.slice(from, to)
Slice(s, from, to) == SubSeq(s, from + 1, Min(to, Len(s)))

\* a scan that passes over the stale thoughts
DependentThoughtsActiveOnly(ts, id) ==
  LET deps == SelectSeq(ts, LAMBDA other :
                  other.status = "active" /\ SeqIncludes(other.dependencies, id))
  IN [i \in 1..Len(deps) |-> [id |-> deps[i].id, thought_type |-> deps[i].thought_type]]

\* the thoughts that list t among their dependencies, as the result shows them
DependentThoughts(ts, id) ==
  LET deps == SelectSeq(ts, LAMBDA other : SeqIncludes(other.dependencies, id))
  IN [i \in 1..Len(deps) |-> [id |-> deps[i].id, thought_type |-> deps[i].thought_type]]

\* the result spreads the fields of each thought (...t); here they stay
\* together under `thought`
handleQueryThoughts(g, input) ==
  LET filtered == SelectSeq(g.thoughts, LAMBDA t : Matches(g.thoughts, input, t))
      thoughts == Sort(filtered, input.query_type)
      paginatedThoughts == Slice(thoughts, input.offset, input.offset + input.limit)
  IN Result([query |-> input,
             total_results |-> Len(thoughts),
             returned_count |-> Len(paginatedThoughts),
             offset |-> input.offset,
             limit |-> input.limit,
             thoughts |-> [i \in 1..Len(paginatedThoughts) |->
                             [thought |-> paginatedThoughts[i],
                              dependencies_count |-> Len(paginatedThoughts[i].dependencies),
                              dependent_thoughts |->
                                DependentThoughts(g.thoughts, paginatedThoughts[i].id)]]])

\* CallTool 'query_thoughts' with a handler that sorts the graph itself
\* instead of a copy of its values
QueryThoughtsSortsInPlace(args) ==
  LET chk == ManagerCheckLimit(limiters, "query_thoughts", DefaultClient, 1, now)
      answers == chk.result.allowed /\ QueryThoughtsSchemaOk(args)
  IN /\ limiters' = chk.limiters
     /\ response' =
          IF ~chk.result.allowed THEN RateLimitError("query_thoughts", chk.result)
          ELSE IF ~QueryThoughtsSchemaOk(args) THEN InvalidParameters
          ELSE handleQueryThoughts(graph, QueryThoughtsParsed(args))
     /\ graph' = IF answers
                 THEN [graph EXCEPT !.thoughts = Sort(@, QueryThoughtsParsed(args).query_type)]
                 ELSE graph
     /\ UNCHANGED <<pending, now>>

\* CallTool 'query_thoughts'
QueryThoughts(args) ==
  LET chk == ManagerCheckLimit(limiters, "query_thoughts", DefaultClient, 1, now)
  IN /\ limiters' = chk.limiters
     /\ response' =
          IF ~chk.result.allowed THEN RateLimitError("query_thoughts", chk.result)
          ELSE IF ~QueryThoughtsSchemaOk(args) THEN InvalidParameters
          ELSE handleQueryThoughts(graph, QueryThoughtsParsed(args))
     /\ UNCHANGED <<graph, pending, now>>

----------------------------------------------------------------------------
(* get_metrics *)

\* include_sessions: a boolean, left out, or something that is no boolean
MetricsInputs == [include_sessions : {"true", "false", Missing, "yes"}]

\* GetMetricsSchema.parse succeeds; the flag it yields (default false)
GetMetricsSchemaOk(args) == args.include_sessions \in {"true", "false", Missing}
IncludeSessions(args) == args.include_sessions = "true"

\* TokenBucketRateLimiter.getStats: the limiter after its refill, and the
\* numbers reported
getStats(l, clientId, t) ==
  LET r == refillTokens(l, t)
  IN [limiter |-> r,
      stats |-> [currentTokens |-> r.tokens \div Milli,
                 maxTokens |-> r.maxTokens,
                 refillRate |-> r.refillRate,
                 requestsInWindow |-> CountOf(r.requestCount, clientId, t \div r.windowMs)]]

\* RateLimitManager.getStats of a limiter the manager has
ManagerGetStats(ls, limiterName, clientId, t) ==
  LET g == getStats(ls[limiterName], clientId, t)
  IN [limiter |-> limiterName, client |-> clientId] @@ g.stats

\* response.current_session of handleGetMetrics
CurrentSession(g) ==
  [session_id |-> g.session_id,
   created_at |-> g.created_at,
   thoughts_in_memory |-> Len(g.thoughts),
   active_thoughts |-> Cardinality({i \in 1..Len(g.thoughts) : g.thoughts[i].status = "active"}),
   stale_thoughts |-> StaleCount(g.thoughts)]

\* CallTool 'get_metrics' up to the await of persistence.getMetrics
GetMetrics(args) ==
  LET chk == ManagerCheckLimit(limiters, "get_metrics", DefaultClient, 1, now)
  IN /\ Cardinality(pending) < MaxPending
     /\ limiters' = chk.limiters
     /\ IF ~chk.result.allowed
        THEN /\ response' = RateLimitError("get_metrics", chk.result)
             /\ pending' = pending
        ELSE IF ~GetMetricsSchemaOk(args)
        THEN /\ response' = InvalidParameters
             /\ pending' = pending
        ELSE /\ response' = NoResponse
             /\ pending' = pending \cup
                  {[name |-> "get_metrics", arguments |-> args, id |-> 0 - 1,
                    invalidated |-> <<>>, saves |-> <<"getMetrics">>,
                    current_session |-> <<>>]}
     /\ UNCHANGED <<graph, now>>

\* the query of the store a suspended handleGetMetrics awaits resolves.
\* After getMetrics the handler reads the graph and, when sessions are asked
\* for, awaits getAllSessions; then it reads the limiters (getStats refills
\* them) and returns. What the store answered is not part of the model.
MetricsResolves(call) ==
  /\ call \in pending
  /\ call.name = "get_metrics"
  /\ IF call.saves = <<"getMetrics">> /\ IncludeSessions(call.arguments)
     THEN /\ pending' = (pending \ {call}) \cup
                {[call EXCEPT !.saves = <<"getAllSessions">>,
                              !.current_session = <<CurrentSession(graph)>>]}
          /\ response' = NoResponse
          /\ limiters' = limiters
     ELSE /\ pending' = pending \ {call}
          /\ response' =
               Result([current_session |->
                         IF call.saves = <<"getMetrics">>
                         THEN CurrentSession(graph) ELSE call.current_session[1],
                       rate_limiting |->
                         [n \in DOMAIN Config |->
                            ManagerGetStats(limiters, n, DefaultClient, now)]])
          /\ limiters' = [n \in DOMAIN limiters |->
                            IF n \in DOMAIN Config
                            THEN getStats(limiters[n], DefaultClient, now).limiter
                            ELSE limiters[n]]
  /\ UNCHANGED <<graph, now>>

\* the query of the store rejects: the catch clause of the CallTool handler
MetricsRejects(call) ==
  /\ call \in pending
  /\ call.name = "get_metrics"
  /\ pending' = pending \ {call}
  /\ response' = InternalError
  /\ UNCHANGED <<graph, limiters, now>>

----------------------------------------------------------------------------
(* The server: one step is the synchronous run of a handler up to its next *)
(* await (or its return), all within one clock reading                      *)

Next ==
  \/ \E args \in LogThoughtInputs : LogThought(args)
  \/ \E args \in InvalidateInputs : InvalidateAssumption(args)
  \/ \E args \in GetGraphInputs : GetThoughtGraph(args)
  \/ \E args \in QueryInputs : QueryThoughts(args)
  \/ \E call \in pending : SaveResolves(call)
  \/ \E call \in pending : SaveRejects(call)

Spec == Init /\ [][Next]_vars

----------------------------------------------------------------------------
(* The server building graphs of up to four logged thoughts: assumptions    *)
(* only, so that every thought can be invalidated                           *)

\* the tokens left in the buckets in the initial state of SpecCascade
CascadeTokens == [log_thought |-> 4, invalidate_assumption |-> 1]

InitCascade ==
  /\ now = 0
  /\ graph = [thoughts |-> <<>>, session_id |-> SessionId, created_at |-> 0]
  /\ limiters = [n \in DOMAIN Config |->
                   SpentLimiter(Config[n],
                                IF n \in DOMAIN CascadeTokens
                                THEN CascadeTokens[n] ELSE Config[n].maxTokens, 0)]
  /\ pending = {}
  /\ response = NoResponse

CascadeLogInputs == {args \in LogThoughtInputs : args.thought_type = "assumption"}

CascadeInvalidateInputs ==
  {args \in InvalidateInputs : args.omitted = {} /\ args.reason = <<"r1">>}

NextCascade ==
  \/ \E args \in CascadeLogInputs : LogThought(args)
  \/ \E args \in CascadeInvalidateInputs : InvalidateAssumption(args)
  \/ \E call \in pending : SaveResolves(call)
  \/ \E call \in pending : SaveRejects(call)

SpecCascade == InitCascade /\ [][NextCascade]_vars

----------------------------------------------------------------------------
(* The server with one token left in each of its five buckets               *)

AdmissionTokens ==
  [log_thought |-> 1, query_thoughts |-> 1, get_metrics |-> 1,
   invalidate_assumption |-> 1, get_thought_graph |-> 1]

InitAdmission ==
  /\ now = 0
  /\ graph = [thoughts |-> <<>>, session_id |-> SessionId, created_at |-> 0]
  /\ limiters = [n \in DOMAIN Config |-> SpentLimiter(Config[n], AdmissionTokens[n], 0)]
  /\ pending = {}
  /\ response = NoResponse

\* the suspended calls that await a saveThought
Saving == {call \in pending : call.name # "get_metrics"}

NextAdmission ==
  \/ \E args \in LogThoughtInputs : LogThought(args)
  \/ \E args \in InvalidateInputs : InvalidateAssumption(args)
  \/ \E args \in GetGraphInputs : GetThoughtGraph(args)
  \/ \E args \in QueryInputs : QueryThoughts(args)
  \/ \E args \in MetricsInputs : GetMetrics(args)
  \/ \E call \in Saving : SaveResolves(call)
  \/ \E call \in Saving : SaveRejects(call)
  \/ \E call \in pending : MetricsResolves(call)
  \/ \E call \in pending : MetricsRejects(call)

SpecAdmission == InitAdmission /\ [][NextAdmission]_vars

----------------------------------------------------------------------------
(* A RateLimitManager with one bucket, called at a clock that advances      *)

\* the last reading of the clock
MaxClock == 3000
\* the milliseconds that pass between two calls
Elapsed == {250, 1000}
\* the costs of the calls
Costs == {1, 3}
\* the buckets tried, one in a behaviour
Buckets == {"get_metrics", "get_thought_graph"}

InitLimiter ==
  /\ now = 0
  /\ graph = [thoughts |-> <<>>, session_id |-> SessionId, created_at |-> 0]
  /\ \E name \in Buckets : limiters = [n \in {name} |-> NewLimiter(Config[n], 0)]
  /\ pending = {}
  /\ response = NoResponse

\* rateLimiter.checkLimit(name, 'default', cost)
CheckLimit(name, cost) ==
  LET c == ManagerCheckLimit(limiters, name, DefaultClient, cost, now)
  IN /\ limiters' = c.limiters
     /\ response' = Result(c.result)
     /\ UNCHANGED <<graph, now, pending>>

\* the clock advances
Tick(d) ==
  /\ now + d <= MaxClock
  /\ now' = now + d
  /\ UNCHANGED <<graph, limiters, pending, response>>

\* the bucket under test: the one the manager has
Bucket == CHOOSE n \in DOMAIN limiters : TRUE

NextLimiter ==
  \/ \E cost \in Costs : CheckLimit(Bucket, cost)
  \/ \E d \in Elapsed : Tick(d)

SpecLimiter == InitLimiter /\ [][NextLimiter]_vars

----------------------------------------------------------------------------
(* The server running a fixed session, queried at every point of it         *)

\* the calls of the session and the clock readings they are made at
QueryScript ==
  <<[at |-> 0, name |-> "log_thought",
     arguments |-> [thought |-> <<"alpha">>, thought_type |-> "objective",
                    dependencies |-> <<>>, confidence |-> <<9>>]],
    [at |-> 10, name |-> "log_thought",
     arguments |-> [thought |-> <<"Beta">>, thought_type |-> "assumption",
                    dependencies |-> <<1>>, confidence |-> undefined]],
    [at |-> 10, name |-> "log_thought",
     arguments |-> [thought |-> <<"gamma", "Beta">>, thought_type |-> "hypothesis",
                    dependencies |-> <<2, 2>>, confidence |-> <<0>>]],
    [at |-> 20, name |-> "log_thought",
     arguments |-> [thought |-> <<"alpha">>, thought_type |-> "evidence",
                    dependencies |-> <<1, 3>>, confidence |-> <<5>>]],
    [at |-> 30, name |-> "invalidate_assumption",
     arguments |-> [thought_id |-> 2, reason |-> <<"r1">>, omitted |-> {}]]>>

\* the tokens left in the buckets in the initial state of SpecQuery
QueryTokens ==
  [log_thought |-> 4, invalidate_assumption |-> 1, query_thoughts |-> 1,
   get_thought_graph |-> 1]

InitQuery ==
  /\ now = 0
  /\ graph = [thoughts |-> <<>>, session_id |-> SessionId, created_at |-> 0]
  /\ limiters = [n \in DOMAIN Config |->
                   SpentLimiter(Config[n],
                                IF n \in DOMAIN QueryTokens
                                THEN QueryTokens[n] ELSE Config[n].maxTokens, 0)]
  /\ pending = {}
  /\ response = NoResponse

\* every call of the session adds one thought: the next call is the one
\* after as many calls as the graph has thoughts, once no handler is suspended
ScriptNext == Len(graph.thoughts) + 1
ScriptReady == pending = {} /\ ScriptNext <= Len(QueryScript)

ScriptArgs(name) ==
  IF ScriptReady /\ QueryScript[ScriptNext].name = name /\ QueryScript[ScriptNext].at = now
  THEN {QueryScript[ScriptNext].arguments}
  ELSE {}

\* the clock reaches the time of the next call
ScriptTick ==
  /\ ScriptReady
  /\ QueryScript[ScriptNext].at > now
  /\ now' = QueryScript[ScriptNext].at
  /\ UNCHANGED <<graph, limiters, pending, response>>

\* the filters tried, in every combination
FilterInputs ==
  [query_type : {Missing},
   thought_type : {Missing, "assumption", "evidence"},
   status : {Missing, "active", "stale"},
   content_search : {<<>>, <<"BETA">>},
   min_confidence : {undefined, <<0>>, <<5>>},
   max_confidence : {undefined, <<5>>},
   dependency_of : {undefined, <<4>>, <<9>>, <<EmptyId>>},
   depends_on : {undefined, <<2>>, <<EmptyId>>},
   limit : {undefined},
   offset : {undefined}]

\* the sort modes and pages tried, on all thoughts and on the stale ones
PageInputs ==
  [query_type : QueryType \cup {Missing},
   thought_type : {Missing},
   status : {Missing, "stale"},
   content_search : {<<>>},
   min_confidence : {undefined},
   max_confidence : {undefined},
   dependency_of : {undefined},
   depends_on : {undefined},
   limit : {undefined, <<1>>, <<2>>},
   offset : {undefined, <<1>>, <<3>>, <<5>>}]

\* a call the bucket denies is thrown out before its arguments are parsed:
\* there one input stands for all
AllQueryInputs ==
  IF Admitted("query_thoughts")
  THEN FilterInputs \cup PageInputs \cup {[QueryDefaults EXCEPT !.limit = <<0>>]}
  ELSE {QueryDefaults}

NextQuery ==
  \/ \E args \in ScriptArgs("log_thought") : LogThought(args)
  \/ \E args \in ScriptArgs("invalidate_assumption") : InvalidateAssumption(args)
  \/ ScriptTick
  \/ \E call \in pending : SaveResolves(call)
  \/ \E call \in pending : SaveRejects(call)
  \/ \E args \in AllQueryInputs : QueryThoughts(args)
  \/ \E args \in GetGraphInputs : GetThoughtGraph(args)

SpecQuery == InitQuery /\ [][NextQuery]_vars

----------------------------------------------------------------------------
(* The server running the calls of testDRE, its graph read at every point   *)

\* the calls of the test scenario that change the graph
TestScript ==
  <<[name |-> "log_thought",
     arguments |-> [thought |-> <<"p">>, thought_type |-> "objective",
                    dependencies |-> <<>>, confidence |-> undefined]],
    [name |-> "log_thought",
     arguments |-> [thought |-> <<"p">>, thought_type |-> "hypothesis",
                    dependencies |-> <<1>>, confidence |-> <<7>>]],
    [name |-> "log_thought",
     arguments |-> [thought |-> <<"p">>, thought_type |-> "assumption",
                    dependencies |-> <<2>>, confidence |-> <<8>>]],
    [name |-> "log_thought",
     arguments |-> [thought |-> <<"p">>, thought_type |-> "sub_problem",
                    dependencies |-> <<3>>, confidence |-> undefined]],
    [name |-> "invalidate_assumption",
     arguments |-> [thought_id |-> 3, reason |-> <<"r1">>, omitted |-> {}]]>>

\* the tokens left in the buckets in the initial state of SpecTest
TestTokens == [log_thought |-> 4, invalidate_assumption |-> 1, get_thought_graph |-> 2]

InitTest ==
  /\ now = 0
  /\ graph = [thoughts |-> <<>>, session_id |-> SessionId, created_at |-> 0]
  /\ limiters = [n \in DOMAIN Config |->
                   SpentLimiter(Config[n],
                                IF n \in DOMAIN TestTokens
                                THEN TestTokens[n] ELSE Config[n].maxTokens, 0)]
  /\ pending = {}
  /\ response = NoResponse

\* the client awaits each call before it makes the next
TestArgs(name) ==
  IF /\ pending = {}
     /\ ScriptNext <= Len(TestScript)
     /\ TestScript[ScriptNext].name = name
  THEN {TestScript[ScriptNext].arguments}
  ELSE {}

NextTest ==
  \/ \E args \in TestArgs("log_thought") : LogThought(args)
  \/ \E args \in TestArgs("invalidate_assumption") : InvalidateAssumption(args)
  \/ \E call \in pending : SaveResolves(call)
  \/ \E call \in pending : SaveRejects(call)
  \/ \E args \in GetGraphInputs : GetThoughtGraph(args)

SpecTest == InitTest /\ [][NextTest]_vars

----------------------------------------------------------------------------
(* The RateLimitManager with two buckets and two callers                    *)

\* the operation classes and the caller ids tried
ManagerBuckets == {"get_metrics", "get_thought_graph"}
Clients == {DefaultClient, "other"}
\* the milliseconds that pass between two calls of SpecManager
ManagerElapsed == {1500}

\* the tokens left in the buckets in the initial state of SpecManager
ManagerTokens == [get_metrics |-> 1, get_thought_graph |-> 2]

InitManager ==
  /\ now = 0
  /\ graph = [thoughts |-> <<>>, session_id |-> SessionId, created_at |-> 0]
  /\ limiters = [n \in ManagerBuckets |-> SpentLimiter(Config[n], ManagerTokens[n], 0)]
  /\ pending = {}
  /\ response = NoResponse

\* rateLimiter.checkLimit(name, clientId, cost)
ManagerCheck(name, clientId, cost) ==
  LET c == ManagerCheckLimit(limiters, name, clientId, cost, now)
  IN /\ limiters' = c.limiters
     /\ response' = Result(c.result @@ [limiter |-> name])
     /\ UNCHANGED <<graph, now, pending>>

\* rateLimiter.getStats(name, clientId): the limiter refills its bucket
ManagerStats(name, clientId) ==
  /\ name \in DOMAIN limiters
  /\ limiters' = [limiters EXCEPT ![name] = getStats(limiters[name], clientId, now).limiter]
  /\ response' = Result(ManagerGetStats(limiters, name, clientId, now))
  /\ UNCHANGED <<graph, now, pending>>

NextManager ==
  \/ \E name \in ManagerBuckets, clientId \in Clients, cost \in Costs :
        ManagerCheck(name, clientId, cost)
  \/ \E name \in ManagerBuckets, clientId \in Clients : ManagerStats(name, clientId)
  \/ \E d \in ManagerElapsed : Tick(d)

SpecManager == InitManager /\ [][NextManager]_vars

----------------------------------------------------------------------------
(* The server with critiques logged by the client                           *)

\* the tokens left in the buckets in the initial state of SpecCritique
CritiqueTokens == [log_thought |-> 3, invalidate_assumption |-> 2]

InitCritique ==
  /\ now = 0
  /\ graph = [thoughts |-> <<>>, session_id |-> SessionId, created_at |-> 0]
  /\ limiters = [n \in DOMAIN Config |->
                   SpentLimiter(Config[n],
                                IF n \in DOMAIN CritiqueTokens
                                THEN CritiqueTokens[n] ELSE Config[n].maxTokens, 0)]
  /\ pending = {}
  /\ response = NoResponse

\* log_thought takes every type of the enum, critique included
CritiqueLogInputs ==
  [thought : Contents,
   thought_type : {"assumption", "critique"},
   dependencies : IF Admitted("log_thought")
                  THEN DepLists(1..Len(graph.thoughts))
                  ELSE {<<>>},
   confidence : {undefined}]

NextCritique ==
  \/ \E args \in CritiqueLogInputs : LogThought(args)
  \/ \E args \in CascadeInvalidateInputs : InvalidateAssumption(args)
  \/ \E call \in pending : SaveResolves(call)
  \/ \E call \in pending : SaveRejects(call)

SpecCritique == InitCritique /\ [][NextCritique]_vars

----------------------------------------------------------------------------
(* The server with several calls in flight                                  *)

\* the calls a client leaves outstanding at once
MaxInFlight == 2

\* the tokens left in the buckets in the initial state of SpecConcurrent
ConcurrentTokens == [log_thought |-> 2, invalidate_assumption |-> 2]

InitConcurrent ==
  /\ now = 0
  /\ graph = [thoughts |-> <<>>, session_id |-> SessionId, created_at |-> 0]
  /\ limiters = [n \in DOMAIN Config |->
                   SpentLimiter(Config[n],
                                IF n \in DOMAIN ConcurrentTokens
                                THEN ConcurrentTokens[n] ELSE Config[n].maxTokens, 0)]
  /\ pending = {}
  /\ response = NoResponse

\* the request handler is entered for a call while others are suspended
ConcurrentLogThought(args) ==
  Cardinality(pending) < MaxInFlight /\ CallLogThought(args)

ConcurrentInvalidateAssumption(args) ==
  Cardinality(pending) < MaxInFlight /\ CallInvalidateAssumption(args)

\* the calls run one at a time: the graph a log_thought call with these
\* arguments leaves, and the graph an invalidate_assumption call leaves
SequentialLogThought(ts, args) ==
  IF LogThoughtSchemaOk(args) /\ validateDependencies(ts, args.dependencies).error = "ok"
  THEN MapSet(ts, NewThought(ts, args, 0))
  ELSE ts

SequentialInvalidate(ts, args) ==
  IF InvalidateSchemaOk(args) /\ invalidatePrecondition(ts, args.thought_id) = "ok"
  THEN LET marked == markStale(ts, args.thought_id)
       IN MapSet(marked.thoughts,
                 NewCritique(marked.thoughts, Get(ts, args.thought_id), args, 0))
  ELSE ts

\* the graphs one more call leads to from the runs in S; a run is the graph
\* it has reached and the calls of each kind the buckets have admitted
SequentialStep(S) ==
  S \cup
  UNION {{[ts |-> SequentialLogThought(x.ts, args), logged |-> x.logged + 1,
           invalidated |-> x.invalidated]
            : args \in [thought : Contents, thought_type : InputTypes,
                        dependencies : DepLists(1..(Len(x.ts) + 1)),
                        confidence : {undefined}]}
           : x \in {y \in S : y.logged < ConcurrentTokens.log_thought}}
  \cup
  UNION {{[ts |-> SequentialInvalidate(x.ts, args), logged |-> x.logged,
           invalidated |-> x.invalidated + 1]
            : args \in [thought_id : 1..(Len(x.ts) + 1), reason : {<<"r1">>},
                        omitted : {{}}]}
           : x \in {y \in S : y.invalidated < ConcurrentTokens.invalidate_assumption}}

RECURSIVE SequentialRuns(_)
SequentialRuns(S) ==
  LET N == SequentialStep(S) IN IF N = S THEN S ELSE SequentialRuns(N)

\* the graphs the calls of SpecConcurrent lead to when each runs to its end
\* before the next begins
SequentialGraphs ==
  {x.ts : x \in SequentialRuns({[ts |-> <<>>, logged |-> 0, invalidated |-> 0]})}

NextConcurrent ==
  \/ \E args \in LogThoughtInputs : ConcurrentLogThought(args)
  \/ \E args \in CascadeInvalidateInputs : ConcurrentInvalidateAssumption(args)
  \/ \E call \in pending : SaveResolves(call)
  \/ \E call \in pending : SaveRejects(call)

SpecConcurrent == InitConcurrent /\ [][NextConcurrent]_vars

----------------------------------------------------------------------------
(* validateDependencies and markStale step by step, on any stored graph     *)
(*                                                                          *)
(* The two recursive walks of the server run here one JavaScript step at a  *)
(* time. pending holds the one walk in progress: its arguments, the frames  *)
(* of the recursion and the sets the closure shares. The stored graph of    *)
(* the initial state is any graph of up to MaxNodes thoughts over its own   *)
(* ids, cyclic ones included.                                               *)

MaxNodes == 2

\* dependency lists of a stored thought: none, one id, two different ids
StoredDepLists(S) ==
  {<<>>} \cup {<<a>> : a \in S} \cup {<<x[1], x[2]>> : x \in {y \in S \X S : y[1] # y[2]}}

\* dependency lists of a candidate: a repeated id as well
CandidateDepLists(S) ==
  {<<>>} \cup {<<a>> : a \in S} \cup {<<x[1], x[2]>> : x \in S \X S}

\* the graphs of n thoughts with the ids 1..n
StoredGraphs(n, statuses) ==
  {ts \in [1..n -> [id : 1..n, thought : Contents, thought_type : {"assumption"},
                    dependencies : StoredDepLists(1..n), confidence : {undefined},
                    timestamp : {0}, status : statuses]] :
     \A i \in 1..n : ts[i].id = i}

\* a call of validateDependencies(dependencies) about to run hasCycle(tempId)
GuardWalk(dependencies) ==
  [name |-> "validateDependencies", arguments |-> dependencies, pc |-> "call",
   arg |-> tempId, ret |-> FALSE, frames |-> <<>>,
   visited |-> {}, recursiveStack |-> {}, entered |-> <<>>, stale |-> <<>>]

\* a call of markStale(thoughtId) about to run
StaleWalk(thoughtId, ts) ==
  [name |-> "markStale", arguments |-> thoughtId, pc |-> "call",
   arg |-> thoughtId, ret |-> FALSE, frames |-> <<>>,
   visited |-> {}, recursiveStack |-> {}, entered |-> <<>>, stale |-> <<>>,
   before |-> ts]

InitWalk ==
  /\ now = 0
  /\ limiters = [n \in DOMAIN Config |-> NewLimiter(Config[n], 0)]
  /\ response = NoResponse
  /\ \E n \in 0..MaxNodes :
       \/ \E ts \in StoredGraphs(n, {"active"}), dependencies \in CandidateDepLists(1..n) :
            /\ graph = [thoughts |-> ts, session_id |-> SessionId, created_at |-> 0]
            /\ pending = {GuardWalk(dependencies)}
       \/ \E ts \in StoredGraphs(n, {"active", "stale"}), thoughtId \in 1..(n + 1) :
            /\ graph = [thoughts |-> ts, session_id |-> SessionId, created_at |-> 0]
            /\ pending = {StaleWalk(thoughtId, ts)}

Top(frames) == frames[Len(frames)]
Pop(frames) == SubSeq(frames, 1, Len(frames) - 1)
SetTop(frames, f) == [frames EXCEPT ![Len(frames)] = f]

\* hasCycle(nodeId) is entered: the two tests, then the two add()
hasCycleEnter(w) ==
  /\ w.name = "validateDependencies" /\ w.pc = "call"
  /\ pending' =
       {IF w.arg \in w.recursiveStack
        THEN [w EXCEPT !.pc = "return", !.ret = TRUE]
        ELSE IF w.arg \in w.visited
        THEN [w EXCEPT !.pc = "return", !.ret = FALSE]
        ELSE [w EXCEPT !.pc = "for",
                       !.visited = @ \cup {w.arg},
                       !.recursiveStack = @ \cup {w.arg},
                       !.entered = Append(@, w.arg),
                       !.frames = Append(@, [nodeId |-> w.arg, i |-> 1])]}
  /\ UNCHANGED <<graph, limiters, now, response>>

\* the dependencies hasCycle(nodeId) walks
DepsOf(ts, dependencies, nodeId) ==
  IF nodeId = tempId THEN dependencies
  ELSE IF Has(ts, nodeId) THEN Get(ts, nodeId).dependencies
  ELSE <<>>

\* the loop of hasCycle that leaves the node on the stack when it is done
hasCycleForKeepsStack(w) ==
  /\ w.name = "validateDependencies" /\ w.pc = "for"
  /\ LET f == Top(w.frames)
         deps == DepsOf(graph.thoughts, w.arguments, f.nodeId)
     IN pending' =
          {IF f.i > Len(deps)
           THEN [w EXCEPT !.pc = "return", !.ret = FALSE, !.frames = Pop(@)]
           ELSE [w EXCEPT !.pc = "call", !.arg = deps[f.i]]}
  /\ UNCHANGED <<graph, limiters, now, response>>

\* for (const depId of deps): the next hasCycle(depId), or the end of the
\* loop, recursiveStack.delete(nodeId) and return false
hasCycleFor(w) ==
  /\ w.name = "validateDependencies" /\ w.pc = "for"
  /\ LET f == Top(w.frames)
         deps == DepsOf(graph.thoughts, w.arguments, f.nodeId)
     IN pending' =
          {IF f.i > Len(deps)
           THEN [w EXCEPT !.pc = "return", !.ret = FALSE, !.frames = Pop(@),
                          !.recursiveStack = @ \ {f.nodeId}]
           ELSE [w EXCEPT !.pc = "call", !.arg = deps[f.i]]}
  /\ UNCHANGED <<graph, limiters, now, response>>

\* hasCycle returns to its caller: `if (hasCycle(depId)) return true` in the
\* loop, or `if (hasCycle(tempId)) throw` in validateDependencies
hasCycleReturn(w) ==
  /\ w.name = "validateDependencies" /\ w.pc = "return"
  /\ pending' =
       {IF w.frames = <<>>
        THEN [w EXCEPT !.pc = "done"]
        ELSE IF w.ret
        THEN [w EXCEPT !.frames = Pop(@)]
        ELSE [w EXCEPT !.pc = "for",
                       !.frames = SetTop(@, [Top(@) EXCEPT !.i = @ + 1])]}
  /\ response' = IF w.frames = <<>> /\ w.ret
                 THEN McpError("InvalidParams", "Circular dependency detected", <<tempId>>)
                 ELSE response
  /\ UNCHANGED <<graph, limiters, now>>

\* markStale(thoughtId) entered without thought.status = 'stale'
markStaleEnterNoMark(w) ==
  /\ w.name = "markStale" /\ w.pc = "call"
  /\ IF Has(graph.thoughts, w.arg) /\ Get(graph.thoughts, w.arg).status = "active"
     THEN /\ graph' = graph
          /\ pending' = {[w EXCEPT !.pc = "for",
                                   !.entered = Append(@, w.arg),
                                   !.frames = Append(@, [thoughtId |-> w.arg, i |-> 1,
                                                         stale |-> <<w.arg>>])]}
     ELSE /\ graph' = graph
          /\ pending' = {[w EXCEPT !.pc = "return", !.stale = <<>>]}
  /\ UNCHANGED <<limiters, now, response>>

\* markStale(thoughtId) is entered: the test, thought.status = 'stale' and
\* stale.push(thoughtId)
markStaleEnter(w) ==
  /\ w.name = "markStale" /\ w.pc = "call"
  /\ IF Has(graph.thoughts, w.arg) /\ Get(graph.thoughts, w.arg).status = "active"
     THEN /\ graph' = [graph EXCEPT !.thoughts = WithStatus(@, w.arg, "stale")]
          /\ pending' = {[w EXCEPT !.pc = "for",
                                   !.entered = Append(@, w.arg),
                                   !.frames = Append(@, [thoughtId |-> w.arg, i |-> 1,
                                                         stale |-> <<w.arg>>])]}
     ELSE /\ graph' = graph
          /\ pending' = {[w EXCEPT !.pc = "return", !.stale = <<>>]}
  /\ UNCHANGED <<limiters, now, response>>

\* for (const [id, t] of this.graph.thoughts.entries()): the next entry, a
\* call of markStale(id) for an active dependent, or return stale
markStaleFor(w) ==
  /\ w.name = "markStale" /\ w.pc = "for"
  /\ LET f == Top(w.frames)
         ts == graph.thoughts
     IN pending' =
          {IF f.i > Len(ts)
           THEN [w EXCEPT !.pc = "return", !.stale = f.stale, !.frames = Pop(@)]
           ELSE IF SeqIncludes(ts[f.i].dependencies, f.thoughtId) /\ ts[f.i].status = "active"
           THEN [w EXCEPT !.pc = "call", !.arg = ts[f.i].id]
           ELSE [w EXCEPT !.frames = SetTop(@, [f EXCEPT !.i = @ + 1])]}
  /\ UNCHANGED <<graph, limiters, now, response>>

\* markStale returns to its caller: stale.push(...this.markStale(id)), or the
\* list handleInvalidateAssumption gets
markStaleReturn(w) ==
  /\ w.name = "markStale" /\ w.pc = "return"
  /\ pending' =
       {IF w.frames = <<>>
        THEN [w EXCEPT !.pc = "done"]
        ELSE [w EXCEPT !.pc = "for", !.stale = <<>>,
                       !.frames = SetTop(@, [Top(@) EXCEPT !.stale = @ \o w.stale,
                                                            !.i = @ + 1])]}
  /\ UNCHANGED <<graph, limiters, now, response>>

NextWalk ==
  \/ \E w \in pending : hasCycleEnter(w)
  \/ \E w \in pending : hasCycleFor(w)
  \/ \E w \in pending : hasCycleReturn(w)
  \/ \E w \in pending : markStaleEnter(w)
  \/ \E w \in pending : markStaleFor(w)
  \/ \E w \in pending : markStaleReturn(w)

SpecWalk == InitWalk /\ [][NextWalk]_vars

\* a function that has started runs on: JavaScript does not preempt it
FairWalk == SpecWalk /\ WF_vars(NextWalk)

----------------------------------------------------------------------------
(* One full bucket called with costs from nothing to its capacity           *)

\* the calls a window counts before the caller stops
MaxRequests == 4

\* the costs tried: nothing, one token, the capacity of the bucket
RangeCosts == {0, 1, limiters[Bucket].maxTokens}

\* rateLimiter.checkLimit(name, 'default', cost) of a caller that has made
\* fewer than MaxRequests admitted calls
RangeCheck(name, cost) ==
  /\ CountOf(limiters[name].requestCount, DefaultClient, now \div limiters[name].windowMs)
       < MaxRequests
  /\ CheckLimit(name, cost)

NextRange ==
  \/ \E cost \in RangeCosts : RangeCheck(Bucket, cost)
  \/ ManagerStats(Bucket, DefaultClient)
  \/ \E d \in Elapsed : Tick(d)

SpecRange == InitLimiter /\ [][NextRange]_vars

----------------------------------------------------------------------------
(* One full bucket called under two caller ids across several windows       *)

\* the last reading of the clock
WindowClock == 180000
\* the milliseconds that pass between two calls: one window
WindowElapsed == {defaultConfig.windowMs}
\* the costs of the calls
WindowCosts == {3, 8}
\* the caller ids
WindowClients == {DefaultClient, HostPort}

WindowTick(d) ==
  /\ now + d <= WindowClock
  /\ now' = now + d
  /\ UNCHANGED <<graph, limiters, pending, response>>

NextWindow ==
  \/ \E clientId \in WindowClients, cost \in WindowCosts :
        ManagerCheck(Bucket, clientId, cost)
  \/ \E clientId \in WindowClients : ManagerStats(Bucket, clientId)
  \/ \E d \in WindowElapsed : WindowTick(d)

SpecWindow == InitLimiter /\ [][NextWindow]_vars

----------------------------------------------------------------------------
(* The limiter in the numbers of JavaScript                                 *)
(*                                                                          *)
(* tokens is a JavaScript number, and (now - lastRefill) / 1000 *           *)
(* refillRate is rounded at each operation. The sections above count tokens *)
(* in thousandths, which leaves the rounding out; here the same code runs   *)
(* in the arithmetic of the language, IEEE 754 binary64 with rounding to    *)
(* the nearest number and ties to the even one.                             *)
(*                                                                          *)
(* A natural number is the sequence of its digits to the base 2^15, lowest  *)
(* first, without leading zeros; a number is m * 2^e with m odd and below   *)
(* 2^53 (or m = 0, e = 0). The values a limiter computes stay far from the  *)
(* ends of the exponent range, so neither subnormal numbers nor infinities  *)
(* occur.                                                                   *)

\* the bits of the mantissa of a number
Precision == 53

\* the bits of a digit
DigitBits == 15

\* a value computed once for a body that reads it more than once
With(value, Body(_)) == CHOOSE result \in {Body(v) : v \in {value}} : TRUE
With2(a, b, Body(_, _)) == CHOOSE result \in {Body(v, w) : v \in {a}, w \in {b}} : TRUE

RECURSIVE Pow2(_)
Pow2(j) == IF j = 0 THEN 1 ELSE 2 * Pow2(j - 1)

Base == Pow2(DigitBits)

RECURSIVE Digits(_)
Digits(n) == IF n = 0 THEN <<>> ELSE <<n % Base>> \o Digits(n \div Base)

RECURSIVE NatOf(_)
NatOf(a) == IF a = <<>> THEN 0 ELSE Head(a) + Base * NatOf(Tail(a))

RECURSIVE Trim(_)
Trim(a) == IF a = <<>> \/ a[Len(a)] # 0 THEN a ELSE Trim(SubSeq(a, 1, Len(a) - 1))

DigitAt(a, i) == IF i <= Len(a) THEN a[i] ELSE 0

Longer(a, b) == IF Len(a) < Len(b) THEN Len(b) ELSE Len(a)

RECURSIVE AddCarry(_, _, _, _)
AddCarry(a, b, i, c) ==
  IF i > Longer(a, b)
  THEN IF c = 1 THEN <<1>> ELSE <<>>
  ELSE With(DigitAt(a, i) + DigitAt(b, i) + c,
            LAMBDA s : <<s % Base>> \o AddCarry(a, b, i + 1, s \div Base))

DigitsAdd(a, b) == With2(a, b, LAMBDA x, y : AddCarry(x, y, 1, 0))

\* a - b for a >= b
RECURSIVE SubBorrow(_, _, _, _)
SubBorrow(a, b, i, c) ==
  IF i > Len(a)
  THEN <<>>
  ELSE With(DigitAt(a, i) - DigitAt(b, i) - c,
            LAMBDA s : <<(s + Base) % Base>>
                       \o SubBorrow(a, b, i + 1, IF s < 0 THEN 1 ELSE 0))

DigitsSub(a, b) == With2(a, b, LAMBDA x, y : Trim(With(SubBorrow(x, y, 1, 0), LAMBDA d : d)))

\* a < b
DigitsLess(a, b) ==
  With2(a, b, LAMBDA x, y :
     \/ Len(x) < Len(y)
     \/ /\ Len(x) = Len(y)
        /\ \E i \in 1..Len(x) :
              /\ x[i] < y[i]
              /\ \A j \in (i + 1)..Len(x) : x[j] = y[j])

\* a * k for a natural number k below 2^15
RECURSIVE TimesCarry(_, _, _, _)
TimesCarry(a, k, i, c) ==
  IF i > Len(a)
  THEN Digits(c)
  ELSE With(a[i] * k + c, LAMBDA s : <<s % Base>> \o TimesCarry(a, k, i + 1, s \div Base))

DigitsTimes(a, k) ==
  With2(a, k, LAMBDA x, n : With(TimesCarry(x, n, 1, 0), LAMBDA d : Trim(d)))

\* quotient and remainder of a by a natural number k, 0 < k < 2^15: long
\* division from the highest digit
RECURSIVE DivideLoop(_, _, _, _, _)
DivideLoop(a, k, i, rem, q) ==
  IF i = 0
  THEN [q |-> Trim(q), rem |-> rem]
  ELSE With2(rem * Base + a[i], q,
             LAMBDA r, digits : DivideLoop(a, k, i - 1, r % k, <<r \div k>> \o digits))

DigitsDivide(a, k) == With2(a, k, LAMBDA x, n : DivideLoop(x, n, Len(x), 0, <<>>))

\* a * 2^k and floor(a / 2^k)
ShiftLeft(a, k) ==
  With2(a, k, LAMBDA x, n :
     IF x = <<>> THEN <<>>
     ELSE [i \in 1..(n \div DigitBits) |-> 0] \o DigitsTimes(x, Pow2(n % DigitBits)))

ShiftRight(a, k) ==
  With2(a, k, LAMBDA x, n :
     IF n \div DigitBits >= Len(x) THEN <<>>
     ELSE DigitsDivide(SubSeq(x, n \div DigitBits + 1, Len(x)), Pow2(n % DigitBits)).q)

\* the number of bits of a
BitLength(a) ==
  With(a, LAMBDA x :
     IF x = <<>> THEN 0
     ELSE DigitBits * (Len(x) - 1)
          + (CHOOSE j \in 1..DigitBits : Pow2(j - 1) <= x[Len(x)] /\ x[Len(x)] < Pow2(j)))

\* the number of zero bits a > 0 ends in
TrailingZeros(a) ==
  With(a, LAMBDA x :
     With(CHOOSE n \in 1..Len(x) : x[n] # 0 /\ \A j \in 1..(n - 1) : x[j] = 0,
          LAMBDA i :
             DigitBits * (i - 1)
             + (CHOOSE j \in 0..(DigitBits - 1) :
                   x[i] % Pow2(j) = 0 /\ x[i] % Pow2(j + 1) # 0)))

\* the unique representation of m * 2^e
Canonical(m, e) ==
  With2(m, e, LAMBDA digits, exponent :
     IF digits = <<>> THEN [m |-> <<>>, e |-> 0]
     ELSE With(TrailingZeros(digits),
               LAMBDA zeros : [m |-> ShiftRight(digits, zeros), e |-> exponent + zeros]))

\* m rounded to Precision bits when it has s bits more
RoundOff(m, e, sticky, s) ==
  With(ShiftRight(m, s - 1), LAMBDA withHalf :
     With(ShiftRight(withHalf, 1), LAMBDA q :
        LET rest == sticky \/ ShiftLeft(withHalf, s - 1) # m
            up == withHalf[1] % 2 = 1 /\ (rest \/ q[1] % 2 = 1)
        IN Canonical(IF up THEN DigitsAdd(q, <<1>>) ELSE q, e + s)))

\* the number nearest to m * 2^e (plus a positive rest below 2^e when sticky),
\* the even one of two nearest
Round(m, e, sticky) ==
  With2(m, e, LAMBDA digits, exponent :
     With2(BitLength(digits), sticky, LAMBDA bits, rest :
        IF bits <= Precision
        THEN Canonical(digits, exponent)
        ELSE RoundOff(digits, exponent, rest, bits - Precision)))

Number(n) == Canonical(Digits(n), 0)

Lower(x, y) == IF x.e < y.e THEN x.e ELSE y.e

\* the mantissa of x at the exponent e <= x.e
Aligned(x, e) == ShiftLeft(x.m, x.e - e)

Plus(x, y) ==
  With2(x, y, LAMBDA a, b :
     With(Lower(a, b), LAMBDA e : Round(DigitsAdd(Aligned(a, e), Aligned(b, e)), e, FALSE)))

\* x - y for x >= y
Minus(x, y) ==
  With2(x, y, LAMBDA a, b :
     With(Lower(a, b), LAMBDA e : Round(DigitsSub(Aligned(a, e), Aligned(b, e)), e, FALSE)))

Less(x, y) ==
  With2(x, y, LAMBDA a, b :
     With(Lower(a, b), LAMBDA e : DigitsLess(Aligned(a, e), Aligned(b, e))))

\* x * k for a natural number k below 2^15
Times(x, k) == With(x, LAMBDA a : Round(DigitsTimes(a.m, k), a.e, FALSE))

\* x / k for a natural number k, 0 < k < 2^15: the quotient to 75 bits more
\* than the mantissa has, and whether a rest is left
Over(x, k) ==
  With(x, LAMBDA a :
     With(DigitsDivide(ShiftLeft(a.m, 75), k), LAMBDA d : Round(d.q, a.e - 75, d.rem # 0)))

\* Math.floor(x) and Math.ceil(x), for x >= 0
Floor(x) ==
  With(x, LAMBDA a :
     IF a.e >= 0 THEN NatOf(Aligned(a, 0)) ELSE NatOf(ShiftRight(a.m, 0 - a.e)))

Ceil(x) == With(x, LAMBDA a : IF a.e >= 0 THEN Floor(a) ELSE Floor(a) + 1)

\* Math.min(x, y)
Least(x, y) == With2(x, y, LAMBDA a, b : IF Less(b, a) THEN b ELSE a)

\* a limiter that has admitted all but `left` of its tokens' worth of calls
\* in the millisecond t of its construction
DoubleLimiter(config, left, t) ==
  [tokens |-> Number(left),
   lastRefill |-> t,
   maxTokens |-> config.maxTokens,
   refillRate |-> config.refillRate,
   windowMs |-> config.windowMs,
   requestCount |-> IF config.maxTokens > left
                    THEN <<[client |-> DefaultClient, window |-> t \div config.windowMs,
                            count |-> config.maxTokens - left]>>
                    ELSE <<>>]

\* refillTokens(): timePassed = (now - lastRefill) / 1000,
\* tokensToAdd = timePassed * refillRate, tokens = Math.min(maxTokens, tokens + tokensToAdd)
refillTokensDouble(l, t) ==
  With(l, LAMBDA this :
     [this EXCEPT !.tokens = Least(Number(this.maxTokens),
                                   Plus(this.tokens,
                                        Times(Over(Number(t - this.lastRefill), 1000),
                                              this.refillRate))),
                  !.lastRefill = t])

\* Math.ceil((cost - this.tokens) / this.refillRate * 1000)
retryAfter(l, cost) ==
  Ceil(Times(Over(Minus(Number(cost), l.tokens), l.refillRate), 1000))

\* TokenBucketRateLimiter.checkLimit(clientId, cost) at time t
checkLimitDouble(l, clientId, cost, t) ==
  With(refillTokensDouble(l, t), LAMBDA r :
     With2([r EXCEPT !.requestCount = CleanOld(r.requestCount, r.windowMs, t)],
           t \div r.windowMs,
           LAMBDA cleaned, window :
        IF ~Less(cleaned.tokens, Number(cost))
        THEN With([cleaned EXCEPT
                     !.tokens = Minus(cleaned.tokens, Number(cost)),
                     !.requestCount =
                        SetCount(cleaned.requestCount, clientId, window,
                                 CountOf(cleaned.requestCount, clientId, window) + 1)],
                  LAMBDA spent :
                     [limiter |-> spent,
                      result |-> [allowed |-> TRUE, retryAfter |-> 0,
                                  remaining |-> Floor(spent.tokens)]])
        ELSE [limiter |-> cleaned,
              result |-> [allowed |-> FALSE,
                          retryAfter |-> retryAfter(cleaned, cost),
                          remaining |-> Floor(cleaned.tokens)]]))

\* TokenBucketRateLimiter.getStats(clientId) at time t
getStatsDouble(l, clientId, t) ==
  With(refillTokensDouble(l, t), LAMBDA r :
     [limiter |-> r,
      stats |-> [currentTokens |-> Floor(r.tokens),
                 maxTokens |-> r.maxTokens,
                 refillRate |-> r.refillRate,
                 requestsInWindow |-> CountOf(r.requestCount, clientId, t \div r.windowMs)]])

\* the last reading of the clock, the milliseconds between two calls and the
\* costs of the calls
DoubleClock == 1200
DoubleElapsed == {100, 700}
DoubleCosts == {1, 3}

\* one emptied bucket; pending holds the denials the caller is waiting out:
\* the cost it asked for and the time the limiter told it to come back at
InitDouble ==
  /\ now = 0
  /\ graph = [thoughts |-> <<>>, session_id |-> SessionId, created_at |-> 0]
  /\ \E name \in Buckets : limiters = [n \in {name} |-> DoubleLimiter(Config[n], 0, 0)]
  /\ pending = {}
  /\ response = NoResponse

\* rateLimiter.checkLimit(name, 'default', cost); the caller notes a denial
\* and forgets its denials when a request is allowed
DoubleCheck(name, cost) ==
  \E c \in {checkLimitDouble(limiters[name], DefaultClient, cost, now)} :
     /\ limiters' = [limiters EXCEPT ![name] = c.limiter]
     /\ response' = Result(c.result @@ [limiter |-> name])
     /\ pending' = IF c.result.allowed THEN {}
                   ELSE pending \cup {[name |-> name, cost |-> cost,
                                       due |-> now + c.result.retryAfter]}
     /\ UNCHANGED <<graph, now>>

\* rateLimiter.getStats(name, 'default')
DoubleStats(name) ==
  \E g \in {getStatsDouble(limiters[name], DefaultClient, now)} :
     /\ limiters' = [limiters EXCEPT ![name] = g.limiter]
     /\ response' = Result([limiter |-> name, client |-> DefaultClient] @@ g.stats)
     /\ UNCHANGED <<graph, now, pending>>

DoubleTick(d) ==
  /\ now + d <= DoubleClock
  /\ now' = now + d
  /\ UNCHANGED <<graph, limiters, pending, response>>

NextDouble ==
  \/ \E cost \in DoubleCosts : DoubleCheck(Bucket, cost)
  \/ DoubleStats(Bucket)
  \/ \E d \in DoubleElapsed : DoubleTick(d)

SpecDouble == InitDouble /\ [][NextDouble]_vars

----------------------------------------------------------------------------
(* Notions the properties are stated in *)

Thoughts == graph.thoughts

Status(ts, id) == Get(ts, id).status

StaleIds(ts) == {id \in Ids(ts) : Status(ts, id) = "stale"}

\* the ids of the thoughts that list one of S among their dependencies
DependentsOf(ts, S) ==
  {ts[i].id : i \in {j \in 1..Len(ts) : \E d \in S : SeqIncludes(ts[j].dependencies, d)}}

\* S and everything that depends on it, directly or indirectly
RECURSIVE ReverseReach(_, _)
ReverseReach(ts, S) ==
  LET N == S \cup DependentsOf(ts, S)
  IN IF N = S THEN S ELSE ReverseReach(ts, N)

\* S and everything that depends on it through thoughts that are active in ts
RECURSIVE ActiveReverseReach(_, _)
ActiveReverseReach(ts, S) ==
  LET N == S \cup {id \in DependentsOf(ts, S) : Status(ts, id) = "active"}
  IN IF N = S THEN S ELSE ActiveReverseReach(ts, N)

\* what a call of markStale(id) can reach: nothing when id is already stale
CascadeOf(ts, id) ==
  IF Status(ts, id) = "active" THEN ActiveReverseReach(ts, {id}) ELSE {}

\* the ids S depends on, directly or indirectly (in one or more steps)
RECURSIVE DependencyClosure(_, _)
DependencyClosure(ts, S) ==
  LET N == S \cup UNION {{Get(ts, d).dependencies[k] : k \in 1..Len(Get(ts, d).dependencies)}
                          : d \in S \cap Ids(ts)}
  IN IF N = S THEN S ELSE DependencyClosure(ts, N)

DependsOnTransitively(ts, id) ==
  DependencyClosure(ts, {Get(ts, id).dependencies[k] : k \in 1..Len(Get(ts, id).dependencies)})

\* a log_thought call that reaches handleLogThought
LogReachesHandler(args) == Admitted("log_thought") /\ LogThoughtSchemaOk(args)

\* an invalidate_assumption call that reaches handleInvalidateAssumption
InvalidateReachesHandler(args) ==
  Admitted("invalidate_assumption") /\ InvalidateSchemaOk(args)

\* an invalidate_assumption call that passes every check: a successful one
InvalidateSucceeds(args) ==
  /\ InvalidateReachesHandler(args)
  /\ invalidatePrecondition(Thoughts, args.thought_id) = "ok"

HasDangling(ts, dependencies) ==
  \E k \in 1..Len(dependencies) : ~Has(ts, dependencies[k])

----------------------------------------------------------------------------
(* C1 *)

\* C1: after any sequence of log_thought and invalidate_assumption calls,
\* successful or failed, no stored thought is reachable from itself by
\* following dependency ids.
C1_Acyclic ==
  \A id \in Ids(Thoughts) : id \notin DependsOnTransitively(Thoughts, id)

\* a chain of two dependency edges is stored, an invalidation has cascaded
\* over it and a call has failed since
C1_Witness ==
  /\ \E a \in Ids(Thoughts), b \in Ids(Thoughts), c \in Ids(Thoughts) :
        /\ SeqIncludes(Get(Thoughts, b).dependencies, a)
        /\ SeqIncludes(Get(Thoughts, c).dependencies, b)
        /\ Status(Thoughts, a) = "stale" /\ Status(Thoughts, b) = "stale"
  /\ response.kind = "error"

----------------------------------------------------------------------------
(* C2 *)

----------------------------------------------------------------------------
(* C3 *)

\* C3: invalidate_assumption(id) on an active assumption turns stale exactly
\* the thoughts that depend on id through thoughts active at the start of the
\* call (id included); an already-stale thought is not walked through, and
\* every other thought keeps its status.
C3_OnlyActiveChains ==
  [][\A args \in InvalidateInputs :
       (/\ InvalidateAssumption(args)
        /\ InvalidateSucceeds(args)
        /\ Status(Thoughts, args.thought_id) = "active") =>
          \A id \in Ids(Thoughts) :
             /\ id \in ActiveReverseReach(Thoughts, {args.thought_id})
                  => Status(Thoughts, id) = "active" /\ Status(graph'.thoughts, id) = "stale"
             /\ id \notin ActiveReverseReach(Thoughts, {args.thought_id})
                  => Status(graph'.thoughts, id) = Status(Thoughts, id)]_vars

\* an active assumption a was invalidated while its dependent b was already
\* stale: the thought k that depends on b stayed active
C3_Witness ==
  \E call \in pending :
     /\ call.name = "invalidate_assumption"
     /\ call.invalidated = <<call.arguments.thought_id>>
     /\ \E b \in Ids(Thoughts), k \in Ids(Thoughts) :
           /\ SeqIncludes(Get(Thoughts, b).dependencies, call.arguments.thought_id)
           /\ SeqIncludes(Get(Thoughts, k).dependencies, b)
           /\ Status(Thoughts, b) = "stale"
           /\ Status(Thoughts, k) = "active"
           /\ k < call.id

----------------------------------------------------------------------------
(* C4 *)

\* C4: a thought that is stale is stale in every later state: no step of the
\* server changes a status from stale to active.
C4_StaleIsTerminal ==
  [][\A id \in StaleIds(Thoughts) :
       Has(graph'.thoughts, id) /\ Status(graph'.thoughts, id) = "stale"]_vars

\* a thought went stale and the server went on: a thought logged later depends
\* on it, and a read has been answered
C4_Witness ==
  /\ \E s \in StaleIds(Thoughts), t \in Ids(Thoughts) :
        /\ s < t
        /\ Get(Thoughts, t).thought_type # "critique"
        /\ SeqIncludes(Get(Thoughts, t).dependencies, s)
  /\ response.kind = "result"
  /\ "stale_thoughts" \in DOMAIN response.detail

----------------------------------------------------------------------------
(* C5 *)

\* C5: a log_thought call with a dependency id the graph does not have fails
\* and leaves the graph as it was; when the call reaches handleLogThought the
\* error is the dangling-dependency one, naming the first such id.
C5_DanglingRejected ==
  [][\A args \in LogThoughtInputs :
       (HasDangling(Thoughts, args.dependencies) /\ LogThought(args)) =>
          /\ graph' = graph
          /\ response'.kind = "error"
          /\ LogReachesHandler(args) =>
               /\ response'.message = "Dependency does not exist"
               /\ ~Has(Thoughts, response'.detail[1])
               /\ SeqIncludes(args.dependencies, response'.detail[1])]_vars

\* a log_thought naming an unknown id was rejected on a graph that has thoughts
C5_Witness ==
  /\ response.kind = "error"
  /\ response.message = "Dependency does not exist"
  /\ Len(Thoughts) >= 2

----------------------------------------------------------------------------
(* C6 *)

\* C6: invalidating an assumption that is already stale is a no-op: the graph
\* after the call equals the graph before it (no further critique, no status
\* changed).
C6_StaleInvalidateIsNoOp ==
  [][\A args \in InvalidateInputs :
       (/\ InvalidateSucceeds(args)
        /\ Status(Thoughts, args.thought_id) = "stale"
        /\ InvalidateAssumption(args)) => graph' = graph]_vars

----------------------------------------------------------------------------
(* C7 *)

\* C7: every successful invalidate_assumption(id, reason) appends exactly one
\* thought: the graph grows by one, the thoughts it had keep their places and
\* ids, and the new one is active, of type critique, with dependency list
\* <<id>> and a content that contains the reason.
C7_OneCritique ==
  [][\A args \in InvalidateInputs :
       (InvalidateSucceeds(args) /\ InvalidateAssumption(args)) =>
          LET n == Len(Thoughts)
              c == graph'.thoughts[n + 1]
          IN /\ Len(graph'.thoughts) = n + 1
             /\ \A i \in 1..n : graph'.thoughts[i].id = Thoughts[i].id
             /\ c.id \notin Ids(Thoughts)
             /\ c.status = "active"
             /\ c.thought_type = "critique"
             /\ c.dependencies = <<args.thought_id>>
             /\ Includes(c.thought, args.reason)]_vars

\* an invalidation with the second reason has appended its critique to a graph
\* that already held a critique
C7_Witness ==
  \E call \in pending :
     /\ call.name = "invalidate_assumption"
     /\ call.arguments.reason = <<"r2">>
     /\ Includes(Get(Thoughts, call.id).thought, <<"r2">>)
     /\ \E k \in Ids(Thoughts) : k < call.id /\ Get(Thoughts, k).thought_type = "critique"

----------------------------------------------------------------------------
(* C8 *)

\* C8: invalidate_assumption on an id the graph does not have fails with
\* 'Thought not found', on a thought that is no assumption with 'Thought is
\* not an assumption'; the two errors differ, and in both cases the graph is
\* left as it was and no handler is suspended.
C8_InvalidateErrors ==
  [][\A args \in InvalidateInputs :
       (InvalidateReachesHandler(args) /\ InvalidateAssumption(args)) =>
          /\ ~Has(Thoughts, args.thought_id) =>
               /\ response' = McpError("InvalidParams", "Thought not found", <<>>)
               /\ graph' = graph /\ pending' = pending
          /\ (Has(Thoughts, args.thought_id)
              /\ Get(Thoughts, args.thought_id).thought_type # "assumption") =>
               /\ response' = McpError("InvalidParams", "Thought is not an assumption", <<>>)
               /\ response' # McpError("InvalidParams", "Thought not found", <<>>)
               /\ graph' = graph /\ pending' = pending]_vars

\* an invalidation of a thought that is no assumption was refused while the
\* graph also holds an assumption
C8_Witness ==
  /\ response = McpError("InvalidParams", "Thought is not an assumption", <<>>)
  /\ \E id \in Ids(Thoughts) : Get(Thoughts, id).thought_type = "assumption"

----------------------------------------------------------------------------
(* C9 *)

\* C9: whenever a log_thought call returns an error to its caller, the graph
\* is the graph before the call: a call that fails before the insertion
\* leaves the graph unchanged, and a call whose saveThought fails leaves no
\* thought of its own in the graph.
C9_ErrorMeansUnchanged ==
  [][/\ \A args \in LogThoughtInputs :
          (LogThought(args) /\ response'.kind = "error") => graph' = graph
     /\ \A call \in pending :
          (call.name = "log_thought" /\ SaveRejects(call)) =>
             ~Has(graph'.thoughts, call.id)]_vars

----------------------------------------------------------------------------
(* C10 *)

\* C10: a failed saveThought rolls nothing back: the step leaves the graph as
\* it is, with the thought the call inserted and the thoughts it marked stale;
\* no later step removes a thought, and get_thought_graph and an unfiltered
\* query_thoughts return the thoughts of the graph as they are in memory.
C10_NoRollback ==
  [][/\ \A call \in pending :
          SaveRejects(call) =>
             /\ graph' = graph
             /\ Has(graph'.thoughts, call.id)
             /\ \A k \in 1..Len(call.invalidated) :
                   Status(graph'.thoughts, call.invalidated[k]) = "stale"
     /\ \A id \in Ids(Thoughts) : Has(graph'.thoughts, id)
     /\ (/\ Admitted("get_thought_graph")
         /\ GetThoughtGraph([format |-> "full"])) =>
             response'.detail.thoughts = Thoughts
     /\ (/\ Admitted("query_thoughts")
         /\ QueryThoughts(QueryDefaults)) =>
             /\ response'.detail.total_results = Len(Thoughts)
             /\ {response'.detail.thoughts[i].thought :
                   i \in 1..Len(response'.detail.thoughts)} =
                {Thoughts[i] : i \in 1..Len(Thoughts)}]_vars

\* the persistence of an invalidation has failed after the cascade and the
\* critique were applied in memory
C10_Witness ==
  /\ response = InternalError
  /\ pending = {}
  /\ Len(Thoughts) >= 3
  /\ Thoughts[Len(Thoughts)].thought_type = "critique"
  /\ Cardinality(StaleIds(Thoughts)) >= 2

----------------------------------------------------------------------------
(* C11 *)

NoDuplicates(list) == \A i \in 1..Len(list), j \in 1..Len(list) : list[i] = list[j] => i = j

\* the ids whose status the step changes from active to stale
NewlyStale == {id \in Ids(Thoughts) : Status(Thoughts, id) = "active"
                                       /\ Status(graph'.thoughts, id) = "stale"}

\* C11: the list of invalidated ids a successful invalidate_assumption returns
\* holds no id twice and holds exactly the thoughts the call turned from
\* active to stale, also when a thought depends on the assumption along
\* several paths.
C11_ReportedOnce ==
  [][/\ \A args \in CascadeInvalidateInputs :
          (InvalidateSucceeds(args) /\ InvalidateAssumption(args)) =>
             \E call \in pending' \ pending :
                /\ call.arguments = args
                /\ NoDuplicates(call.invalidated)
                /\ {call.invalidated[k] : k \in 1..Len(call.invalidated)} = NewlyStale
     /\ \A call \in pending :
          (/\ call.name = "invalidate_assumption"
           /\ Len(call.saves) = 1
           /\ SaveResolves(call)) =>
             response'.detail.invalidated_thoughts = call.invalidated]_vars

\* a diamond was invalidated from its root: d depends on b and on c, both
\* depend on a, and the call reports the four of them
C11_Witness ==
  \E call \in pending :
     /\ call.name = "invalidate_assumption"
     /\ Len(call.invalidated) = 4
     /\ \E b \in Ids(Thoughts), c \in Ids(Thoughts), d \in Ids(Thoughts) :
           /\ b # c
           /\ Get(Thoughts, b).dependencies = <<call.arguments.thought_id>>
           /\ Get(Thoughts, c).dependencies = <<call.arguments.thought_id>>
           /\ Get(Thoughts, d).dependencies = <<b, c>>

----------------------------------------------------------------------------
(* C12 *)

\* C12: the list of invalidated ids every successful
\* invalidate_assumption(id, reason) returns has id as its first element.
C12_IdFirst ==
  [][\A args \in InvalidateInputs :
       (InvalidateSucceeds(args) /\ InvalidateAssumption(args)) =>
          \E call \in pending' \ pending :
             /\ call.arguments = args
             /\ Len(call.invalidated) >= 1
             /\ call.invalidated[1] = args.thought_id]_vars

----------------------------------------------------------------------------
(* C13 *)

\* The case of C13 does not arise: every dependency of a new thought is the
\* id of a stored thought, the new thought gets an id nothing refers to, and
\* the stored thoughts are acyclic (C1), so hasCycle(tempId) never finds a
\* node on its stack and no call is answered 'Circular dependency detected'.
CycleErrorNeverRaised == response.message # "Circular dependency detected"

----------------------------------------------------------------------------
(* C14 *)

\* what a call of the tool is answered when its bucket denies it: the
\* rate-limit error with the retryAfter and the remaining tokens of the bucket
Denied(name) ==
  RateLimitError(name, ManagerCheckLimit(limiters, name, DefaultClient, 1, now).result)

\* the step runs nothing of the operation: the graph is as it was and no
\* handler is suspended
NotExecuted == graph' = graph /\ pending' = pending

\* C14: for each of the five tools the bucket of the tool is asked before the
\* arguments are parsed and before the graph is touched: a call the bucket
\* denies, whatever its arguments, is answered the rate-limit error with a
\* positive retryAfter, runs nothing and leaves the graph unchanged.
C14_AdmissionFirst ==
  [][/\ \A args \in LogThoughtInputs :
          (~Admitted("log_thought") /\ LogThought(args)) =>
             response' = Denied("log_thought") /\ NotExecuted
     /\ \A args \in InvalidateInputs :
          (~Admitted("invalidate_assumption") /\ InvalidateAssumption(args)) =>
             response' = Denied("invalidate_assumption") /\ NotExecuted
     /\ \A args \in GetGraphInputs :
          (~Admitted("get_thought_graph") /\ GetThoughtGraph(args)) =>
             response' = Denied("get_thought_graph") /\ NotExecuted
     /\ \A args \in QueryInputs :
          (~Admitted("query_thoughts") /\ QueryThoughts(args)) =>
             response' = Denied("query_thoughts") /\ NotExecuted
     /\ \A args \in MetricsInputs :
          (~Admitted("get_metrics") /\ GetMetrics(args)) =>
             response' = Denied("get_metrics") /\ NotExecuted
     /\ response'.message = "Rate limit exceeded" => response'.detail[2] > 0]_vars

\* every bucket is empty, the graph holds thoughts and the last call, a
\* get_metrics, was denied
C14_Witness ==
  /\ \A n \in DOMAIN Config : ~Admitted(n)
  /\ Len(Thoughts) >= 2
  /\ response.message = "Rate limit exceeded"
  /\ response.detail[1] = "get_metrics"

----------------------------------------------------------------------------
(* C15 *)

\* C15: at zero elapsed time a cost-1 call on a bucket that holds
\* capacity - N tokens, N < capacity, is allowed and leaves capacity - (N + 1)
\* tokens, which it reports as remaining; so N consecutive calls from the full
\* bucket leave capacity - N. The call on the bucket that holds less than the
\* cost is denied and takes nothing.
C15_TokenConservation ==
  [][\A N \in 0..limiters[Bucket].maxTokens :
       LET l == limiters[Bucket]
       IN (/\ CheckLimit(Bucket, 1)
           /\ now = l.lastRefill
           /\ l.tokens = (l.maxTokens - N) * Milli) =>
             IF N < l.maxTokens
             THEN /\ response'.detail.allowed
                  /\ response'.detail.remaining = l.maxTokens - (N + 1)
                  /\ limiters'[Bucket].tokens = (l.maxTokens - (N + 1)) * Milli
             ELSE /\ ~response'.detail.allowed
                  /\ limiters'[Bucket].tokens = l.tokens]_vars

\* the bucket was emptied by as many cost-1 calls as it has capacity, all at
\* the time of its construction, and the next call was denied
C15_Witness ==
  /\ now = 0
  /\ DOMAIN limiters \subseteq Buckets
  /\ limiters[Bucket].tokens = 0
  /\ CountOf(limiters[Bucket].requestCount, DefaultClient, 0) = limiters[Bucket].maxTokens
  /\ response.kind = "result"
  /\ ~response.detail.allowed

----------------------------------------------------------------------------
(* C16 *)

\* the tokens of bucket l at time t by the claim: what it held plus elapsed
\* time times refill rate, at most the capacity (in thousandths)
Refilled(l, t) == Min(l.maxTokens * Milli, l.tokens + (t - l.lastRefill) * l.refillRate)

\* C16: checkLimit(cost) first refills the bucket by the elapsed time times
\* the refill rate, capped at the capacity; it allows exactly when the tokens
\* then cover the cost; allowing, it takes exactly the cost; denying, it
\* leaves the refilled tokens as they are and reports
\* retryAfter = ceil((cost - tokens) / refillRate * 1000).
C16_CheckLimit ==
  [][\A cost \in Costs :
       LET l == limiters[Bucket]
           tokens == Refilled(l, now)
       IN CheckLimit(Bucket, cost) =>
            /\ response'.detail.allowed = (tokens >= cost * Milli)
            /\ limiters'[Bucket].lastRefill = now
            /\ response'.detail.allowed =>
                  limiters'[Bucket].tokens = tokens - cost * Milli
            /\ ~response'.detail.allowed =>
                  /\ limiters'[Bucket].tokens = tokens
                  /\ response'.detail.retryAfter * l.refillRate >= cost * Milli - tokens
                  /\ (response'.detail.retryAfter - 1) * l.refillRate < cost * Milli - tokens]_vars

\* a call was denied on a bucket that held a fraction of a token after a
\* refill, and a bucket has been refilled up to its cap
C16_Witness ==
  /\ DOMAIN limiters \subseteq Buckets
  /\ response.kind = "result"
  /\ ~response.detail.allowed
  /\ limiters[Bucket].tokens % Milli # 0
  /\ limiters[Bucket].lastRefill > 0
  /\ response.detail.retryAfter > 0

----------------------------------------------------------------------------
(* The query engine *)

\* the server has just answered a query_thoughts call
QueryAnswered == response.kind = "result" /\ "total_results" \in DOMAIN response.detail

\* the parsed input and the entries of the answer
Query == response.detail.query
Returned == response.detail.thoughts

\* what each filter asks of a thought t, a filter that is not given asking
\* nothing
Satisfies(q, t) ==
  /\ q.thought_type # Missing => t.thought_type = q.thought_type
  /\ q.status # Missing => t.status = q.status
  /\ q.content_search # <<>> =>
        Includes(toLowerCase(t.thought), toLowerCase(q.content_search))
  /\ q.min_confidence # undefined =>
        t.confidence # undefined /\ t.confidence[1] >= q.min_confidence[1]
  /\ q.max_confidence # undefined =>
        t.confidence # undefined /\ t.confidence[1] <= q.max_confidence[1]
  /\ q.dependency_of # undefined =>
        \E i \in 1..Len(Thoughts) :
           /\ Thoughts[i].id = q.dependency_of[1]
           /\ SeqIncludes(Thoughts[i].dependencies, t.id)
  /\ q.depends_on # undefined => SeqIncludes(t.dependencies, q.depends_on[1])

\* C17: the filters of query_thoughts compose conjunctively: a thought is
\* returned only if it satisfies every filter the call gives (type, status,
\* content, confidence bounds, dependency_of X, depends_on X), the results
\* are all the thoughts that do, and a filter left out asks nothing.
C17_FiltersCompose ==
  QueryAnswered =>
    /\ \A i \in 1..Len(Returned) : Satisfies(Query, Returned[i].thought)
    /\ response.detail.total_results =
          Cardinality({i \in 1..Len(Thoughts) : Satisfies(Query, Thoughts[i])})

\* apart from an empty string given as dependency_of or depends_on, the
\* filters do compose as C17 says
C17_ExceptEmptyId ==
  (/\ QueryAnswered
   /\ Query.dependency_of # <<EmptyId>>
   /\ Query.depends_on # <<EmptyId>>) =>
    /\ \A i \in 1..Len(Returned) : Satisfies(Query, Returned[i].thought)
    /\ response.detail.total_results =
          Cardinality({i \in 1..Len(Thoughts) : Satisfies(Query, Thoughts[i])})

\* the confidence a thought is sorted by: a missing one counts as 0
SortConfidence(t) == IF Len(t.confidence) = 0 THEN 0 ELSE t.confidence[1]

\* a is allowed in front of b under the sort mode
InOrder(query_type, a, b) ==
  /\ query_type = "recent" => a.timestamp >= b.timestamp
  /\ query_type = "by_confidence" => SortConfidence(a) >= SortConfidence(b)
  /\ query_type = "by_type" => Rank(a.thought_type) <= Rank(b.thought_type)
  /\ query_type = "by_content" => localeCompare(a.thought, b.thought) <= 0
  /\ query_type = "by_dependency" => Len(a.dependencies) >= Len(b.dependencies)

MaxLimit == 100

\* the thoughts the same query is answered with when it asks for the first
\* MaxLimit results
Unpaged ==
  handleQueryThoughts(graph, [Query EXCEPT !.offset = 0, !.limit = MaxLimit]).detail.thoughts

ReturnedIds == {Returned[i].thought.id : i \in 1..Len(Returned)}

\* how often id occurs in the dependency sequence
Occurrences(dependencies, id) ==
  Cardinality({k \in 1..Len(dependencies) : dependencies[k] = id})

\* C20: every returned thought carries dependencies_count, the length of its
\* dependency sequence with duplicates counted, and dependent_thoughts, the
\* thoughts of the whole graph whose dependency list holds its id, returned
\* or not, each listed once.
C20_Augmentation ==
  QueryAnswered =>
    \A i \in 1..Len(Returned) :
      LET entry == Returned[i]
          listed == entry.dependent_thoughts
      IN /\ \E k \in 1..Len(Thoughts) : Thoughts[k] = entry.thought
         /\ entry.dependencies_count = Len(entry.thought.dependencies)
         /\ \A a \in 1..Len(listed), b \in 1..Len(listed) :
               listed[a].id = listed[b].id => a = b
         /\ {listed[a] : a \in 1..Len(listed)} =
               {[id |-> Thoughts[k].id, thought_type |-> Thoughts[k].thought_type] :
                  k \in {n \in 1..Len(Thoughts) :
                           Occurrences(Thoughts[n].dependencies, entry.thought.id) > 0}}

\* a filtered query has returned a thought that names a dependency twice,
\* and a thought with a dependent that is not returned and one that names
\* it twice
C20_Witness ==
  /\ QueryAnswered
  /\ Query.status = "stale"
  /\ \E i \in 1..Len(Returned) :
        \E k \in 1..Len(Returned[i].thought.dependencies) :
           /\ Occurrences(Returned[i].thought.dependencies,
                          Returned[i].thought.dependencies[k]) = 2
           /\ Returned[i].dependencies_count = 2
  /\ \E i \in 1..Len(Returned) :
        /\ \E a \in 1..Len(Returned[i].dependent_thoughts) :
              Returned[i].dependent_thoughts[a].id \notin ReturnedIds
        /\ \E k \in 1..Len(Thoughts) :
              Occurrences(Thoughts[k].dependencies, Returned[i].thought.id) = 2

----------------------------------------------------------------------------
(* The two read operations *)

\* the server has just answered a get_thought_graph call
GraphAnswered ==
  /\ response.kind = "result"
  /\ "session_id" \in DOMAIN response.detail

\* the server has just thrown a read call out: its bucket was empty or its
\* arguments did not parse
ReadRefused ==
  \/ /\ response.message = "Rate limit exceeded"
     /\ response.detail[1] \in {"query_thoughts", "get_thought_graph"}
  \/ response = InvalidParameters

\* C21: query_thoughts and get_thought_graph are read-only: whatever the
\* filters, the sort mode, the offset and the limit, the thoughts of the
\* graph, their order and every field of each, status included, are after
\* the call what they were before it.
C21_ReadOnly ==
  [][(QueryAnswered' \/ GraphAnswered' \/ ReadRefused') => graph' = graph]_vars

\* a query sorted by content has answered with the thoughts in another
\* order than the graph holds them in, some stale and some active
C21_Witness ==
  /\ QueryAnswered
  /\ Query.query_type = "by_content"
  /\ Len(Returned) = Len(Thoughts)
  /\ \E i \in 1..Len(Returned) : Returned[i].thought # Thoughts[i]
  /\ \E i \in 1..Len(Thoughts) : Thoughts[i].status = "stale"
  /\ \E i \in 1..Len(Thoughts) : Thoughts[i].status = "active"

\* the server has just answered a get_thought_graph call in summary format
SummaryAnswered == GraphAnswered /\ "stale_thoughts" \in DOMAIN response.detail

\* the sum of the counts of a summary
RECURSIVE SumOf(_)
SumOf(counts) ==
  IF DOMAIN counts = {} THEN 0
  ELSE LET ty == CHOOSE x \in DOMAIN counts : TRUE
       IN counts[ty] + SumOf([x \in DOMAIN counts \ {ty} |-> counts[x]])

\* C22: a summary reports total_thoughts, the number of thoughts in the
\* graph, counts per type that sum to it, and stale_thoughts, the number of
\* thoughts that are stale in the current state.
C22_Summary ==
  SummaryAnswered =>
    /\ response.detail.total_thoughts = Len(Thoughts)
    /\ SumOf(response.detail.thought_types) = response.detail.total_thoughts
    /\ \A ty \in DOMAIN response.detail.thought_types :
          response.detail.thought_types[ty] =
            Cardinality({i \in 1..Len(Thoughts) : Thoughts[i].thought_type = ty})
    /\ response.detail.stale_thoughts =
          Cardinality({i \in 1..Len(Thoughts) : Thoughts[i].status = "stale"})

\* the summary after the assumption of the chain objective <- hypothesis <-
\* assumption <- sub_problem was invalidated: five thoughts, two of them stale
C22_Witness ==
  /\ SummaryAnswered
  /\ Len(Thoughts) = 5
  /\ Thoughts[5].thought_type = "critique"
  /\ response.detail.total_thoughts = 5
  /\ response.detail.stale_thoughts = 2
  /\ Thoughts[3].status = "stale" /\ Thoughts[4].status = "stale"

----------------------------------------------------------------------------
(* The graph over time *)

\* a thought without its status
Immutable(t) == [f \in DOMAIN t \ {"status"} |-> t[f]]

\* C23: the graph is append-only and a thought is immutable but for its
\* status: no step removes a thought, and no step changes the id, the text,
\* the type, the dependency sequence, the confidence or the timestamp of a
\* thought the graph already has.
C23_AppendOnly ==
  [][/\ Len(graph'.thoughts) >= Len(Thoughts)
     /\ \A i \in 1..Len(Thoughts) :
           Immutable(graph'.thoughts[i]) = Immutable(Thoughts[i])]_vars

\* an invalidation has marked a thought with dependencies stale and added
\* its critique, and a save has failed since
C23_Witness ==
  /\ \E i \in 1..Len(Thoughts) :
        Thoughts[i].status = "stale" /\ Thoughts[i].dependencies # <<>>
  /\ \E i \in 1..Len(Thoughts) : Thoughts[i].thought_type = "critique"
  /\ response = InternalError

\* the place of the thought with this id in the graph: the size of the
\* graph right after the thought was inserted
PlaceOf(ts, id) == CHOOSE i \in 1..Len(ts) : ts[i].id = id

\* C24: every successful log_thought adds exactly one thought, under an id
\* no earlier thought has, overwriting none, and the total_thoughts it
\* returns is the size of the graph right after its own insertion, the size
\* before it plus 1.
C24_OneNewThought ==
  [][/\ \A args \in LogThoughtInputs :
          (ConcurrentLogThought(args) /\ response' = NoResponse) =>
             /\ Len(graph'.thoughts) = Len(Thoughts) + 1
             /\ SubSeq(graph'.thoughts, 1, Len(Thoughts)) = Thoughts
             /\ graph'.thoughts[Len(Thoughts) + 1].id \notin Ids(Thoughts)
     /\ \A call \in pending :
          (call.name = "log_thought" /\ SaveResolves(call)) =>
             response'.detail.total_thoughts = PlaceOf(Thoughts, call.id)]_vars

\* what holds of C24: the insertion adds one thought under a fresh id, and
\* the total returned is the size of the graph when the handler returns
C24_SizeAtReturn ==
  [][/\ \A args \in LogThoughtInputs :
          (ConcurrentLogThought(args) /\ response' = NoResponse) =>
             /\ Len(graph'.thoughts) = Len(Thoughts) + 1
             /\ SubSeq(graph'.thoughts, 1, Len(Thoughts)) = Thoughts
             /\ graph'.thoughts[Len(Thoughts) + 1].id \notin Ids(Thoughts)
     /\ \A call \in pending :
          (call.name = "log_thought" /\ SaveResolves(call)) =>
             /\ response'.detail.total_thoughts = Len(Thoughts)
             /\ response'.detail.total_thoughts >= PlaceOf(Thoughts, call.id)]_vars

----------------------------------------------------------------------------
(* Critiques *)

\* the critiques handleInvalidateAssumption has appended
AppendedCritiques ==
  {i \in 1..Len(Thoughts) :
     /\ Thoughts[i].thought_type = "critique"
     /\ Head(Thoughts[i].thought) = "Assumption invalidated: \""}

\* C25: critiques are never subject to cascade: no thought of type critique,
\* appended by invalidate_assumption or logged through log_thought with
\* dependencies, is ever made stale by an invalidation.
C25_CritiquesStayActive ==
  \A i \in 1..Len(Thoughts) :
     Thoughts[i].thought_type = "critique" => Thoughts[i].status = "active"

\* the critiques that invalidate_assumption appends do stay active
C25_AppendedStayActive ==
  \A i \in AppendedCritiques : Thoughts[i].status = "active"

----------------------------------------------------------------------------
(* The buckets of the RateLimitManager *)

\* C26: the buckets of different operation classes are independent: a
\* checkLimit or getStats call on one class never changes the tokens, the
\* last-refill time or the window counters of another class.
C26_BucketsIndependent ==
  [][\A name \in ManagerBuckets, clientId \in Clients :
       ((\E cost \in Costs : ManagerCheck(name, clientId, cost))
        \/ ManagerStats(name, clientId)) =>
          /\ DOMAIN limiters' = DOMAIN limiters
          /\ \A other \in DOMAIN limiters \ {name} : limiters'[other] = limiters[other]]_vars

\* a call on one class was made after the clock had advanced while the
\* other class has a bucket that is not full and was refilled before
C26_Witness ==
  \E name \in ManagerBuckets, other \in ManagerBuckets :
     /\ name # other
     /\ response.kind = "result"
     /\ "limiter" \in DOMAIN response.detail
     /\ response.detail.limiter = name
     /\ limiters[name].lastRefill = now
     /\ limiters[other].lastRefill < now
     /\ limiters[other].tokens < limiters[other].maxTokens * Milli
     /\ limiters[other].requestCount # <<>>

\* what a checkLimit call of this caller would be answered with
Outcome(l, clientId, cost) == checkLimit(l, clientId, cost, now).result

\* C27: the bucket is keyed by caller identity: within one operation class
\* the tokens a checkLimit call consumes under one caller id do not reduce
\* the tokens available to a call under another caller id, nor change
\* whether such a call is allowed.
C27_CallersIndependent ==
  [][\A name \in ManagerBuckets, clientId \in Clients, cost \in Costs :
       ManagerCheck(name, clientId, cost) =>
          \A other \in Clients \ {clientId}, otherCost \in Costs :
             Outcome(limiters'[name], other, otherCost) =
               Outcome(limiters[name], other, otherCost)]_vars

\* what the code keeps per caller is the count of the window: a call under
\* one caller id leaves the counts of the other ids as they are
C27_CountsPerCaller ==
  [][\A name \in ManagerBuckets, clientId \in Clients, cost \in Costs :
       ManagerCheck(name, clientId, cost) =>
          \A other \in Clients \ {clientId} :
             getStats(limiters'[name], other, now).stats.requestsInWindow =
               getStats(limiters[name], other, now).stats.requestsInWindow]_vars

\* window counts the limiter could hold instead of its own: none, a count
\* past the capacity for the caller in the current window, and its own
\* with every count at the capacity
OtherCounts(l, clientId) ==
  {<<>>,
   <<[client |-> clientId, window |-> now \div l.windowMs, count |-> l.maxTokens + 1]>>,
   [i \in 1..Len(l.requestCount) |-> [l.requestCount[i] EXCEPT !.count = l.maxTokens]]}

\* C28: the window counter is purely observational: a limiter that agrees
\* with this one on tokens, capacity, refill rate and last-refill time and
\* differs in its window counts answers the same checkLimit call at the same
\* time with the same allowed, retryAfter and remaining, and is left with
\* the same tokens.
C28_CounterObservational ==
  [][\A name \in ManagerBuckets, clientId \in Clients, cost \in Costs :
       ManagerCheck(name, clientId, cost) =>
          \A counts \in OtherCounts(limiters[name], clientId) :
             LET twin == checkLimit([limiters[name] EXCEPT !.requestCount = counts],
                                    clientId, cost, now)
             IN /\ twin.result.allowed = response'.detail.allowed
                /\ twin.result.retryAfter = response'.detail.retryAfter
                /\ twin.result.remaining = response'.detail.remaining
                /\ twin.limiter.tokens = limiters'[name].tokens
                /\ twin.limiter.lastRefill = limiters'[name].lastRefill]_vars

\* a call was allowed for a caller whose count in the window has reached the
\* capacity of the bucket, after a refill
C28_Witness ==
  \E name \in ManagerBuckets :
     /\ response.kind = "result"
     /\ "limiter" \in DOMAIN response.detail
     /\ response.detail.limiter = name
     /\ "allowed" \in DOMAIN response.detail
     /\ response.detail.allowed
     /\ now > 0
     /\ limiters[name].lastRefill = now
     /\ \E i \in 1..Len(limiters[name].requestCount) :
           limiters[name].requestCount[i].count >= limiters[name].maxTokens

----------------------------------------------------------------------------
(* Determinism of the cascade *)

\* a copy of the graph that has the ids, the statuses, the dependency
\* sequences and the insertion order of the thoughts, and nothing else of
\* them
Blank(ts) ==
  [i \in 1..Len(ts) |->
     [id |-> ts[i].id, status |-> ts[i].status, dependencies |-> ts[i].dependencies,
      thought |-> <<>>, thought_type |-> "", confidence |-> undefined, timestamp |-> 0]]

----------------------------------------------------------------------------
(* Calls in flight *)

\* C30: with several calls in flight, suspended at their saves, the
\* in-memory part of each operation is atomic (validation and insertion in
\* log_thought; precondition, stale marking and critique in
\* invalidate_assumption): every reachable graph is one that running the
\* operations one at a time in some order reaches.
C30_Serializable == graph.thoughts \in SequentialGraphs

\* two calls are in flight, a log_thought and an invalidate_assumption that
\* has made the thought of the former stale
C30_Witness ==
  \E logCall \in pending, invalidateCall \in pending :
     /\ logCall.name = "log_thought"
     /\ invalidateCall.name = "invalidate_assumption"
     /\ SeqIncludes(invalidateCall.invalidated, logCall.id)
     /\ Has(Thoughts, invalidateCall.id)

----------------------------------------------------------------------------
(* C31 *)

\* a cycle can be reached from the candidate: one of the thoughts the
\* candidate depends on, directly or indirectly, depends on itself
CycleReachable(ts, dependencies) ==
  \E v \in DependencyClosure(ts, {dependencies[k] : k \in 1..Len(dependencies)}) :
     Has(ts, v) /\ v \in DependsOnTransitively(ts, v)

\* C31: for any stored graph, cyclic ones included, and any candidate list
\* of stored ids, hasCycle(tempId) returns true if and only if a cycle can be
\* reached from the candidate along dependency edges; it returns true only
\* from the call that met a node on the stack, it enters the body of no node
\* twice, and validateDependencies throws 'Circular dependency detected' in
\* exactly these cases.
C31_CycleGuard ==
  \A w \in pending :
    w.name = "validateDependencies" =>
      /\ NoDuplicates(w.entered)
      /\ (w.pc = "return" /\ w.ret) => w.arg \in w.recursiveStack
      /\ w.pc = "done" =>
           /\ w.ret <=> CycleReachable(graph.thoughts, w.arguments)
           /\ w.ret <=> (validateDependencies(graph.thoughts, w.arguments).error
                           = "Circular dependency detected")

\* the guard has finished on a candidate with two dependencies: it explored
\* the first fully, met it again among the dependencies of the second, and
\* then found the second on the stack
C31_Witness ==
  \E w \in pending :
    /\ w.name = "validateDependencies" /\ w.pc = "done" /\ w.ret
    /\ Len(w.arguments) = 2
    /\ w.entered = <<tempId, w.arguments[1], w.arguments[2]>>
    /\ w.arguments[1] \notin DependsOnTransitively(graph.thoughts, w.arguments[1])
    /\ Get(graph.thoughts, w.arguments[2]).dependencies = <<w.arguments[1], w.arguments[2]>>

----------------------------------------------------------------------------
(* C32 *)

\* C32: the walks of log_thought and invalidate_assumption terminate on every
\* finite graph, cyclic ones included: neither hasCycle nor markStale enters
\* the body of a thought twice, markStale ends with the graph and the list
\* the recursion defines, and every walk that has started comes to its end.
C32_Terminates ==
  /\ [](\A w \in pending :
          /\ NoDuplicates(w.entered)
          /\ (w.name = "markStale" /\ w.pc = "done") =>
               /\ graph.thoughts = markStale(w.before, w.arguments).thoughts
               /\ w.stale = markStale(w.before, w.arguments).stale)
  /\ <>(\A w \in pending : w.pc = "done")

\* markStale has finished on a graph whose thoughts depend on each other in
\* a circle, and has marked both of them
C32_Witness ==
  \E w \in pending :
    /\ w.name = "markStale" /\ w.pc = "done"
    /\ Len(w.stale) = 2
    /\ \A id \in Ids(w.before) : id \in DependsOnTransitively(w.before, id)

----------------------------------------------------------------------------
(* C33 *)

\* C33: in every reachable state a stale thought is an assumption or lists
\* a stale thought among its dependencies; and a step turns a thought of
\* another type stale only as an invalidate_assumption call on an assumption
\* whose cascade reaches the thought.
C33_StaleHasCause ==
  /\ [](\A id \in StaleIds(Thoughts) :
          \/ Get(Thoughts, id).thought_type = "assumption"
          \/ \E k \in 1..Len(Get(Thoughts, id).dependencies) :
                Status(Thoughts, Get(Thoughts, id).dependencies[k]) = "stale")
  /\ [][\A id \in NewlyStale :
          Get(Thoughts, id).thought_type # "assumption" =>
            \E call \in pending' \ pending :
               /\ call.name = "invalidate_assumption"
               /\ Get(Thoughts, call.arguments.thought_id).thought_type = "assumption"
               /\ id \in CascadeOf(Thoughts, call.arguments.thought_id)]_vars

\* a critique the client logged is stale, and so is the logged critique it
\* depends on: the cascade of an assumption reached it in two steps
C33_Witness ==
  \E a \in StaleIds(Thoughts), b \in StaleIds(Thoughts), c \in StaleIds(Thoughts) :
     /\ Get(Thoughts, a).thought_type = "assumption"
     /\ Get(Thoughts, b).thought_type = "critique"
     /\ Get(Thoughts, c).thought_type = "critique"
     /\ Get(Thoughts, b).dependencies = <<a>>
     /\ Get(Thoughts, c).dependencies = <<b>>

----------------------------------------------------------------------------
(* C34 *)

\* C34: in every reachable state validateDependencies accepts every list of
\* stored ids, and no call has been answered 'Circular dependency detected'.
C34_GuardNeverFires ==
  /\ \A dependencies \in CandidateDepLists(Ids(Thoughts)) :
        validateDependencies(Thoughts, dependencies).error = "ok"
  /\ response.message # "Circular dependency detected"

\* a log_thought call was accepted whose two dependencies depend on the same
\* thought: the guard came to that thought a second time
C34_Witness ==
  \E call \in pending :
     /\ call.name = "log_thought"
     /\ Len(call.arguments.dependencies) = 2
     /\ \E a \in Ids(Thoughts) :
           /\ Get(Thoughts, call.arguments.dependencies[1]).dependencies = <<a>>
           /\ Get(Thoughts, call.arguments.dependencies[2]).dependencies = <<a>>

----------------------------------------------------------------------------
(* C35 *)

\* a log_thought call that reaches the handler with stored dependencies only
LogWithStoredDeps(args) ==
  LogReachesHandler(args) /\ ~HasDangling(Thoughts, args.dependencies)

\* C35: an admitted log_thought call whose dependency ids all exist always
\* succeeds and creates the new thought with status active, whatever the
\* status of its dependencies: the call inserts the thought as active and is
\* answered 'logged'.
C35_AlwaysSucceeds ==
  [][/\ \A args \in CascadeLogInputs :
          (LogThought(args) /\ LogWithStoredDeps(args)) =>
             /\ graph'.thoughts = Append(Thoughts, NewThought(Thoughts, args, now))
             /\ Thoughts'[Len(Thoughts')].status = "active"
     /\ \A call \in pending :
          (call.name = "log_thought" /\ call \notin pending') =>
             /\ response'.kind = "result"
             /\ response'.detail.status = "logged"]_vars

\* What holds of the claim: the call inserts the thought as active and leaves
\* every stored status as it is, also when dependencies are stale; it is
\* answered 'logged' when its save resolves, and the thought is then still
\* active.
C35_InsertsActive ==
  [][/\ \A args \in CascadeLogInputs :
          (LogThought(args) /\ LogWithStoredDeps(args)) =>
             /\ graph'.thoughts = Append(Thoughts, NewThought(Thoughts, args, now))
             /\ Thoughts'[Len(Thoughts')].status = "active"
             /\ \E call \in pending' \ pending : call.id = Thoughts'[Len(Thoughts')].id
     /\ \A call \in pending :
          (call.name = "log_thought" /\ SaveResolves(call)) =>
             /\ response'.kind = "result"
             /\ response'.detail.status = "logged"
             /\ Status(Thoughts', call.id) = "active"]_vars

\* a thought was logged on two stale dependencies and answered 'logged': it
\* is active
C35_StaleDependencies ==
  /\ response.kind = "result"
  /\ "status" \in DOMAIN response.detail
  /\ LET t == Get(Thoughts, response.detail.thought_id)
     IN /\ t.status = "active"
        /\ Len(t.dependencies) = 2
        /\ \A k \in 1..2 : Status(Thoughts, t.dependencies[k]) = "stale"

----------------------------------------------------------------------------
(* C36 *)

\* C36: with a clock that does not go back and costs from 0 to the capacity,
\* every limiter holds at least 0 and at most its capacity in tokens after
\* every checkLimit and getStats call.
C36_TokensInRange ==
  \A n \in DOMAIN limiters :
     /\ 0 <= limiters[n].tokens
     /\ limiters[n].tokens <= limiters[n].maxTokens * Milli

\* a call that cost the whole capacity was allowed after the clock had
\* advanced and left nothing: the refill before it had stopped at the
\* capacity
C36_Witness ==
  /\ DOMAIN limiters \subseteq Buckets
  /\ response.kind = "result"
  /\ "allowed" \in DOMAIN response.detail
  /\ response.detail.allowed
  /\ limiters[Bucket].tokens = 0
  /\ limiters[Bucket].lastRefill > 0
  /\ CountOf(limiters[Bucket].requestCount, DefaultClient, 0) = MaxRequests

----------------------------------------------------------------------------
(* C37 *)

\* C37: a checkLimit denied with retryAfter = r is allowed when it is made
\* again with the same cost r milliseconds later or more, no request on the
\* bucket having been allowed in between.
C37_RetryAfterSuffices ==
  [][\A o \in pending :
       (now >= o.due /\ DoubleCheck(o.name, o.cost)) => response'.detail.allowed]_vars

----------------------------------------------------------------------------
(* C38 *)

\* the step took one token from the bucket of the tool and from no other
\* bucket, and ran nothing of the operation
Charged(name) ==
  /\ limiters'[name].tokens = Refilled(limiters[name], now) - Milli
  /\ \A n \in DOMAIN limiters \ {name} : limiters'[n] = limiters[n]
  /\ NotExecuted

\* C38: a call of any of the five tools that its bucket admits and that is
\* then thrown out (by the schema, by validateDependencies, or by the checks
\* of handleInvalidateAssumption) has cost one token of the bucket of its
\* tool, and no step gives a token back: while the clock stands, the tokens
\* of no bucket grow.
C38_FailureCostsToken ==
  [][/\ \A args \in LogThoughtInputs :
          (Admitted("log_thought") /\ LogThought(args) /\ response'.kind = "error")
             => Charged("log_thought")
     /\ \A args \in InvalidateInputs :
          (/\ Admitted("invalidate_assumption")
           /\ InvalidateAssumption(args)
           /\ response'.kind = "error") => Charged("invalidate_assumption")
     /\ \A args \in GetGraphInputs :
          (/\ Admitted("get_thought_graph")
           /\ GetThoughtGraph(args)
           /\ response'.kind = "error") => Charged("get_thought_graph")
     /\ \A args \in QueryInputs :
          (Admitted("query_thoughts") /\ QueryThoughts(args) /\ response'.kind = "error")
             => Charged("query_thoughts")
     /\ \A args \in MetricsInputs :
          (Admitted("get_metrics") /\ GetMetrics(args) /\ response'.kind = "error")
             => Charged("get_metrics")
     /\ now' = now =>
          \A n \in DOMAIN limiters : limiters'[n].tokens <= limiters[n].tokens]_vars

\* the one token of invalidate_assumption went to a call on a hypothesis: the
\* call was refused, the hypothesis is active and the bucket is empty
C38_Witness ==
  /\ response.message = "Thought is not an assumption"
  /\ Len(Thoughts) = 1
  /\ Thoughts[1].status = "active"
  /\ limiters["invalidate_assumption"].tokens = 0
  /\ ~Admitted("invalidate_assumption")

----------------------------------------------------------------------------
(* C39 *)

\* what getStats would report for the caller id now
Reported(clientId) == getStats(limiters[Bucket], clientId, now).stats.requestsInWindow

\* the window the clock is in
Window == now \div limiters[Bucket].windowMs

\* the count of caller id c follows the allowed checkLimit calls under c in
\* the current window: one more with each allowed call under c, as it was
\* after a denied call and after a call under another id, nothing again when
\* the clock enters the next window; and it is what getStats reports
CountsAllowed(c) ==
  /\ \A clientId \in WindowClients, cost \in WindowCosts :
        ManagerCheck(Bucket, clientId, cost) =>
           Reported(c)' = Reported(c) +
                            (IF c = clientId /\ response'.detail.allowed THEN 1 ELSE 0)
  /\ ManagerStats(Bucket, c) =>
        /\ response'.detail.requestsInWindow = Reported(c)
        /\ Reported(c)' = Reported(c)
  /\ \A d \in WindowElapsed :
        WindowTick(d) => Reported(c)' = (IF Window' = Window THEN Reported(c) ELSE 0)

\* the caller ids that have no colon in them
ColonFree == {id \in WindowClients : Len(split(id)) = 1}

\* C39: requestsInWindow reported by getStats for a caller id equals the
\* number of allowed checkLimit calls under that caller id within the current
\* fixed window, whose index is floor(now / windowMs): it is nothing at the
\* start, denied calls are not counted, and calls of an earlier window or of
\* another caller id are not included.
C39_WindowCount ==
  /\ \A c \in WindowClients : Reported(c) = 0
  /\ [][\A c \in WindowClients : CountsAllowed(c)]_vars

\* the count is right for every caller id that has no colon in it, whatever
\* the ids of the other callers
C39_ColonFreeIds ==
  /\ \A c \in ColonFree : Reported(c) = 0
  /\ [][\A c \in ColonFree : CountsAllowed(c)]_vars

\* two calls under 'default' were allowed and a third denied in the third
\* window, after allowed calls under both ids in earlier windows
C39_ColonFreeCounted ==
  /\ Window = 2
  /\ Reported(DefaultClient) = 2
  /\ response.kind = "result"
  /\ "allowed" \in DOMAIN response.detail
  /\ ~response.detail.allowed
  /\ \E i \in 1..Len(limiters[Bucket].requestCount) :
        /\ limiters[Bucket].requestCount[i].client = DefaultClient
        /\ limiters[Bucket].requestCount[i].window = 1

----------------------------------------------------------------------------
(* C40 *)

\* the ids of the thoughts query_thoughts answers the arguments with, on the
\* graph as it is
MatchedBy(args) ==
  LET result == handleQueryThoughts(graph, QueryThoughtsParsed(args)).detail.thoughts
  IN {result[i].thought.id : i \in 1..Len(result)}

\* the ids in the dependent_thoughts the unfiltered query shows for thought T
DependentsShown(T) ==
  LET result == handleQueryThoughts(graph, QueryThoughtsParsed(QueryDefaults)).detail.thoughts
      entry == result[CHOOSE i \in 1..Len(result) : result[i].thought.id = T]
  IN {entry.dependent_thoughts[i].id : i \in 1..Len(entry.dependent_thoughts)}

\* for thoughts X and T of the graph: T is matched by dependency_of = X iff X
\* is matched by depends_on = T iff X is among T's dependent_thoughts
ConverseFilters ==
  \A X \in Ids(Thoughts), T \in Ids(Thoughts) :
     /\ T \in MatchedBy([QueryDefaults EXCEPT !.dependency_of = <<X>>])
          <=> X \in MatchedBy([QueryDefaults EXCEPT !.depends_on = <<T>>])
     /\ X \in MatchedBy([QueryDefaults EXCEPT !.depends_on = <<T>>])
          <=> X \in DependentsShown(T)

\* ids the graph does not have: the empty string and an id never given out
NotInGraph == {EmptyId, Len(QueryScript) + 4} \ Ids(Thoughts)

\* C40: the two dependency filters are converse relations: for thoughts X and
\* T of the graph, T is matched by query_thoughts(dependency_of = X) if and
\* only if X is matched by query_thoughts(depends_on = T), and if and only if
\* X appears in T's dependent_thoughts; dependency_of with an id that is not
\* in the graph matches nothing.
C40_ConverseFilters ==
  /\ ConverseFilters
  /\ \A id \in NotInGraph : MatchedBy([QueryDefaults EXCEPT !.dependency_of = <<id>>]) = {}

\* the part of C40 about the thoughts of the graph, and dependency_of with an
\* unknown id other than the empty string
C40_ConverseInGraph ==
  /\ ConverseFilters
  /\ \A id \in NotInGraph \ {EmptyId} :
        MatchedBy([QueryDefaults EXCEPT !.dependency_of = <<id>>]) = {}

\* the session has run: thought 3 lists thought 2 twice, thought 4 depends on
\* 1 and 3, and the critique on the stale thought 2
C40_ConverseReached ==
  /\ Len(Thoughts) = Len(QueryScript)
  /\ MatchedBy([QueryDefaults EXCEPT !.dependency_of = <<4>>]) = {1, 3}
  /\ MatchedBy([QueryDefaults EXCEPT !.depends_on = <<2>>]) = {3, 5}
  /\ DependentsShown(2) = {3, 5}

====
